---- MODULE Spec2Model ----
(***************************************************************************)
(* Selection and navigation subsystem of the block editor:                 *)
(*   - CrossBlockSelection  (src/unnamed/part_002)                         *)
(*   - RectangleSelection   (src/src/components/modules/rectangleSelection)*)
(*   - BlockEvents          (src/src/components/modules/blockEvents.ts)    *)
(* The block registry (BlockManager), BlockSelection and Caret are         *)
(* collaborators whose code is not part of the sources; the few operations *)
(* of them that the engines call are modelled from the specification.      *)
(***************************************************************************)
EXTENDS Integers, Sequences, FiniteSets, TLC

\* ------------------------------------------------------------------ bounds
\* Number of blocks of the document in the cross-block model.
NumBlocks == 4
\* Number of blocks of the document in the rectangle model.
RectBlocks == 3
\* Largest number of autoscroll timeouts pending at once that is explored.
MaxChains == 2
\* Number of blocks of the document in the cut model.
CutBlocks == 3
\* Largest number of Cut commands issued in one behaviour.
MaxCuts == 2
\* Number of blocks of the scenario document (spec.md, section 8).
ScenarioBlocks == 10
\* Number of blocks of the document in the autoscroll model.
ScrollBlocks == 1
\* Number of blocks of the document in the keyboard model.
KeyBlocks == 4
\* Largest number of blocks the Enter key adds in one behaviour.
MaxEnters == 1
\* Number of blocks of the document in the keydown hook model.
HookBlocks == 2
\* Number of blocks of the document in the Backspace / Delete ladder model.
LadderBlocks == 3
\* Number of blocks of the document in the drag-then-keyboard model.
MixedBlocks == 3
\* Largest number of delayed updateCurrentInput callbacks pending at once.
MaxDelays == 1

\* ------------------------------------------------------------------ state
VARIABLES
    \* Block registry (BlockManager.blocks, Block.selected, currentBlock, Caret)
    blocks,                  \* sequence of block ids, in document order
    selected,                \* set of ids of the blocks whose selected flag is true
    currentBlock,            \* id of the block holding input focus, or NoBlock
    caret,                   \* [block, pos]: where Caret.setToBlock put the caret last
    nextId,                  \* id the next inserted block gets
    content,                 \* block id -> its text, a sequence of pieces (absent: empty)
    tool,                    \* block id -> its tool's name (absent: the default tool)
    currentInput,            \* index of the focused input in currentBlock, 0: none
    \* CrossBlockSelection
    firstSelectedBlock,
    firstSelectedBlockIndex,
    lastSelectedBlock,
    endSelectedBlockIndex,
    listening,               \* mouseover/mouseup listeners are bound
    pointerAt,               \* the block under the pointer (NoBlock: over no block)
    \* RectangleSelection
    isRectSelectionActivated,
    mousedown,
    inScrollZone,
    startX, startY, mouseX, mouseY,
    stackOfSelected,
    rectCrossesBlocks,
    overlayRectangle,        \* [display, left, right, top, bottom]
    scrollTop,               \* scrollContainer.scrollTop
    speedFactory,
    timers,                  \* pending setTimeout(scrollVertical) callbacks, FIFO:
                             \* [speed, stale]; stale: the drag that started the
                             \* chain has ended since
    \* BlockEvents: Cut
    cuts,                    \* promises returned by copySelectedBlocks, not yet reacted to
    clipboard,               \* ids written to the clipboard by the last completed copy
    cutsIssued,              \* number of Cut commands that started a copy
    \* BlockEvents: keys
    isRtl,                   \* the editor is right-to-left (i18n.direction = "rtl")
    merging,                 \* the pending promise of BlockManager.mergeBlocks:
                             \* [target, blockToMerge], or NoMerge
    inputTimers,             \* number of pending _.delay(updateCurrentInput, 20) callbacks
    \* observation
    fault,                   \* a handler threw a TypeError
    lastOp                   \* the handler that ran last, with its inputs

docVars  == <<content, tool, currentInput>>
regVars  == <<blocks, selected, currentBlock, caret, nextId, docVars>>
cbsVars  == <<firstSelectedBlock, firstSelectedBlockIndex, lastSelectedBlock,
              endSelectedBlockIndex, listening>>
rectVars == <<isRectSelectionActivated, mousedown, inScrollZone, startX, startY,
              mouseX, mouseY, stackOfSelected, rectCrossesBlocks,
              overlayRectangle, scrollTop, speedFactory, timers>>
cutVars  == <<cuts, clipboard, cutsIssued>>
keyVars  == <<isRtl, merging, inputTimers>>
vars     == <<regVars, cbsVars, pointerAt, rectVars, cutVars, keyVars, fault, lastOp>>

\* ------------------------------------------------------------ block registry
\* An unresolved block (undefined / null in the source).
NoBlock == 0
\* Array.prototype.indexOf on a miss.
NotFound == -1

Min(a, b) == IF a < b THEN a ELSE b
Max(a, b) == IF a > b THEN a ELSE b

\* BlockManager.blocks.indexOf(block), 0-based
indexOf(bs, b) ==
    IF \E i \in 1..Len(bs) : bs[i] = b
    THEN (CHOOSE i \in 1..Len(bs) : bs[i] = b /\ \A j \in 1..(i - 1) : bs[j] # b) - 1
    ELSE NotFound

\* Variant of blockAt that answers the nearest block for an index out of range
blockAt_clamped(bs, i) ==
    IF bs = <<>> THEN NoBlock ELSE bs[Min(Max(i, 0), Len(bs) - 1) + 1]

\* BlockManager.blocks[i], 0-based; NoBlock when i is no index of the array
blockAt(bs, i) == IF i >= 0 /\ i < Len(bs) THEN bs[i + 1] ELSE NoBlock

\* BlockManager.getBlockIndex(block)
getBlockIndex(b) == indexOf(blocks, b)

\* indices (0-based) of the selected blocks
SelectedIndices == {i \in 0..(Len(blocks) - 1) : blocks[i + 1] \in selected}

\* BlockSelection.anyBlockSelected
anyBlockSelected == selected # {}

\* What a hit test (getBlock, getBlockByChildNode) can resolve: a block or nothing.
BlockIds == {blocks[i] : i \in 1..Len(blocks)}
Targets == BlockIds \cup {NoBlock}

\* -------------------------------------------------------- CrossBlockSelection
\* get isCrossBlockSelectionStarted
isCrossBlockSelectionStarted ==
    /\ firstSelectedBlock # NoBlock
    /\ lastSelectedBlock # NoBlock
    /\ firstSelectedBlock # lastSelectedBlock

\* A loop `for (i = lo; i <= hi; i++) if (i in touched) blocks[i].selected = v`:
\* the indices it reaches before blocks[i] is undefined (where the assignment
\* throws), and whether it throws.
loopThrows(lo, hi, touched) ==
    \E i \in lo..hi : i \in touched /\ blockAt(blocks, i) = NoBlock

loopDone(lo, hi, touched) ==
    {i \in lo..hi : /\ i \in touched
                    /\ \A j \in lo..i : j \in touched => blockAt(blocks, j) # NoBlock}

idsAt(S) == {blockAt(blocks, i) : i \in S}

\* Variant of clear that resets the first anchor only
clear_keepsLast ==
    /\ firstSelectedBlock' = NoBlock
    /\ UNCHANGED lastSelectedBlock

\* clear(reason), its last statement: both anchors are reset.
clear ==
    /\ firstSelectedBlock' = NoBlock
    /\ lastSelectedBlock' = NoBlock

\* watchSelection(event), called right after clear: a button other than the
\* primary one returns at once and leaves the anchors as clear left them.
watchSelection(button, target) ==
    IF button # 0
    THEN /\ clear
         /\ UNCHANGED <<firstSelectedBlockIndex, endSelectedBlockIndex, listening>>
    ELSE /\ firstSelectedBlock' = target
         /\ firstSelectedBlockIndex' = getBlockIndex(target)
         /\ endSelectedBlockIndex' = getBlockIndex(target)
         /\ lastSelectedBlock' = target
         /\ listening' = TRUE

\* The default tool of the editor; the text and the tool of a block
defaultTool == "paragraph"
contentOf(b) == IF b \in DOMAIN content THEN content[b] ELSE <<>>
toolOf(b) == IF b \in DOMAIN tool THEN tool[b] ELSE defaultTool

\* Block.inputs.length
numInputs(b) == IF toolOf(b) = "quote" THEN 2 ELSE 1

\* Variant of setToBlock that ignores the position asked for
setToBlock_atStart(b, pos) ==
    /\ currentBlock' = b
    /\ currentInput' = 1
    /\ caret' = [block |-> b, pos |-> "start"]

\* Caret.setToBlock(block, position): the block takes the focus, on its last
\* input for the END position, on its first input for START, and on the input
\* it has as current (the first one of a block not focused before) otherwise.
setToBlock(b, pos) ==
    /\ currentBlock' = b
    /\ currentInput' = IF pos = "end" THEN numInputs(b)
                       ELSE IF pos = "default" /\ b = currentBlock THEN currentInput
                       ELSE 1
    /\ caret' = [block |-> b, pos |-> pos]

\* clear(reason), the caret placement: for a keyboard reason, when blocks are
\* selected and both anchors are in the registry, Caret.setToBlock puts the
\* caret at the start of the upper anchor (UP, LEFT) or at the end of the lower
\* one (any other key); the block it is set to becomes the current block.
clearCaret(reason) ==
    LET fIndex == indexOf(blocks, firstSelectedBlock)
        lIndex == indexOf(blocks, lastSelectedBlock)
    IN  IF anyBlockSelected /\ fIndex > -1 /\ lIndex > -1 /\ reason.keyboard
        THEN IF reason.key \in {"UP", "LEFT"}
             THEN setToBlock(blockAt(blocks, Min(fIndex, lIndex)), "start")
             ELSE setToBlock(blockAt(blocks, Max(fIndex, lIndex)), "end")
        ELSE UNCHANGED <<caret, currentBlock, currentInput>>

\* A reason that is no KeyboardEvent (a MouseEvent, a ClipboardEvent, none).
NoReason == [keyboard |-> FALSE, key |-> "none"]

\* BlockSelection.clearSelection(reason), the part on the registry: clear(reason)
\* places the caret, then every block is deselected. The callers add `clear`
\* (or watchSelection, which overrides it) for the anchors.
clearSelection(reason) ==
    /\ clearCaret(reason)
    /\ selected' = {}

\* toggleBlocksSelectedState(targetBlock): [sel, end, thrown]
toggleBlocksSelectedState(targetBlock) ==
    LET targetIndex == indexOf(blocks, targetBlock)
        newBeginIndex == Min(targetIndex, firstSelectedBlockIndex)
        newEndIndex == Max(targetIndex, firstSelectedBlockIndex)
        lo1 == Min(firstSelectedBlockIndex, endSelectedBlockIndex)
        hi1 == Max(firstSelectedBlockIndex, endSelectedBlockIndex)
        Outside == {i \in lo1..hi1 : i < newBeginIndex \/ i > newEndIndex}
        Always == newBeginIndex..newEndIndex
        sel1 == selected \ idsAt(loopDone(lo1, hi1, Outside))
        thrown1 == loopThrows(lo1, hi1, Outside)
        sel2 == sel1 \cup idsAt(loopDone(newBeginIndex, newEndIndex, Always))
        thrown2 == loopThrows(newBeginIndex, newEndIndex, Always)
    IN  IF thrown1 THEN [sel |-> sel1, end |-> endSelectedBlockIndex, thrown |-> TRUE]
        ELSE IF thrown2 THEN [sel |-> sel2, end |-> endSelectedBlockIndex, thrown |-> TRUE]
        ELSE [sel |-> sel2, end |-> targetIndex, thrown |-> FALSE]

\* enableCrossBlockSelection(event): the document's mousedown listener.
\* inRedactor: UI.nodes.redactor.contains(event.target)
enableCrossBlockSelection(button, inRedactor, target) ==
    /\ inRedactor \/ target = NoBlock
    /\ clearSelection(NoReason)
    /\ IF inRedactor
       THEN watchSelection(button, target)
       ELSE /\ clear
            /\ UNCHANGED <<firstSelectedBlockIndex, endSelectedBlockIndex, listening>>
    /\ lastOp' = [op |-> "mousedown", button |-> button, inRedactor |-> inRedactor,
                  target |-> target]
    /\ UNCHANGED <<blocks, nextId, content, tool, fault>>

\* Variant of onMouseUp that leaves the listeners bound
onMouseUp_keepsListening ==
    /\ listening
    /\ lastOp' = [op |-> "mouseup"]
    /\ UNCHANGED <<regVars, cbsVars, fault>>

\* onMouseUp
onMouseUp ==
    /\ listening
    /\ listening' = FALSE
    /\ lastOp' = [op |-> "mouseup"]
    /\ UNCHANGED <<regVars, firstSelectedBlock, firstSelectedBlockIndex,
                   lastSelectedBlock, endSelectedBlockIndex, fault>>

\* Variant of onMouseOver without the test for identical blocks
onMouseOver_noIdenticalTest(related, target) ==
    LET relatedBlock == IF related # NoBlock THEN related ELSE lastSelectedBlock
        lo == Min(firstSelectedBlockIndex, endSelectedBlockIndex)
        hi == Max(firstSelectedBlockIndex, endSelectedBlockIndex)
        Always == lo..hi
        t == toggleBlocksSelectedState(target)
    IN
    /\ listening
    /\ lastOp' = [op |-> "mouseover", related |-> related, target |-> target]
    /\ UNCHANGED <<blocks, currentBlock, caret, nextId, docVars, firstSelectedBlock,
                   firstSelectedBlockIndex, listening>>
    /\ IF relatedBlock = NoBlock \/ target = NoBlock
       THEN UNCHANGED <<selected, lastSelectedBlock, endSelectedBlockIndex, fault>>
       ELSE IF relatedBlock = firstSelectedBlock
       THEN /\ selected' = selected \cup {relatedBlock, target}
            /\ UNCHANGED <<lastSelectedBlock, endSelectedBlockIndex, fault>>
       ELSE IF target = firstSelectedBlock
       THEN /\ selected' =
                   IF firstSelectedBlockIndex # endSelectedBlockIndex
                   THEN (selected \ {relatedBlock, target}) \ idsAt(loopDone(lo, hi, Always))
                   ELSE selected \ {relatedBlock, target}
            /\ fault' = (fault \/ (firstSelectedBlockIndex # endSelectedBlockIndex
                                   /\ loopThrows(lo, hi, Always)))
            /\ UNCHANGED <<lastSelectedBlock, endSelectedBlockIndex>>
       ELSE /\ selected' = t.sel
            /\ endSelectedBlockIndex' = t.end
            /\ fault' = (fault \/ t.thrown)
            /\ lastSelectedBlock' = IF t.thrown THEN lastSelectedBlock ELSE target

\* onMouseOver(event). related, target: what getBlockByChildNode resolves for
\* event.relatedTarget and event.target.
onMouseOver(related, target) ==
    LET relatedBlock == IF related # NoBlock THEN related ELSE lastSelectedBlock
        lo == Min(firstSelectedBlockIndex, endSelectedBlockIndex)
        hi == Max(firstSelectedBlockIndex, endSelectedBlockIndex)
        Always == lo..hi
        t == toggleBlocksSelectedState(target)
    IN
    /\ listening
    /\ lastOp' = [op |-> "mouseover", related |-> related, target |-> target]
    /\ UNCHANGED <<blocks, currentBlock, caret, nextId, docVars, firstSelectedBlock,
                   firstSelectedBlockIndex, listening>>
    /\ IF relatedBlock = NoBlock \/ target = NoBlock \/ target = relatedBlock
       THEN UNCHANGED <<selected, lastSelectedBlock, endSelectedBlockIndex, fault>>
       ELSE IF relatedBlock = firstSelectedBlock
       THEN /\ selected' = selected \cup {relatedBlock, target}
            /\ UNCHANGED <<lastSelectedBlock, endSelectedBlockIndex, fault>>
       ELSE IF target = firstSelectedBlock
       THEN /\ selected' =
                   IF firstSelectedBlockIndex # endSelectedBlockIndex
                   THEN (selected \ {relatedBlock, target}) \ idsAt(loopDone(lo, hi, Always))
                   ELSE selected \ {relatedBlock, target}
            /\ fault' = (fault \/ (firstSelectedBlockIndex # endSelectedBlockIndex
                                   /\ loopThrows(lo, hi, Always)))
            /\ UNCHANGED <<lastSelectedBlock, endSelectedBlockIndex>>
       ELSE /\ selected' = t.sel
            /\ endSelectedBlockIndex' = t.end
            /\ fault' = (fault \/ t.thrown)
            /\ lastSelectedBlock' = IF t.thrown THEN lastSelectedBlock ELSE target

\* ------------------------------------------------------------ initial state
InitRegistry(n) ==
    /\ blocks = [i \in 1..n |-> i]
    /\ selected = {}
    /\ caret = [block |-> NoBlock, pos |-> "none"]
    /\ nextId = n + 1
    /\ content = <<>>
    /\ tool = <<>>
    /\ currentInput = 0

InitCBS ==
    /\ firstSelectedBlock = NoBlock
    /\ firstSelectedBlockIndex = NotFound
    /\ lastSelectedBlock = NoBlock
    /\ endSelectedBlockIndex = NotFound
    /\ listening = FALSE
    /\ pointerAt = NoBlock

InitRect ==
    /\ isRectSelectionActivated = FALSE
    /\ mousedown = FALSE
    /\ inScrollZone = FALSE
    /\ startX = 0 /\ startY = 0 /\ mouseX = 0 /\ mouseY = 0
    /\ stackOfSelected = <<>>
    /\ rectCrossesBlocks = FALSE
    /\ overlayRectangle = [display |-> "none", left |-> 0, right |-> 0, top |-> 0, bottom |-> 0]
    /\ scrollTop = 0
    /\ speedFactory = 1
    /\ timers = <<>>

InitCut ==
    /\ cuts = <<>>
    /\ clipboard = <<>>
    /\ cutsIssued = 0

\* No merge is pending.
NoMerge == [target |-> NoBlock, blockToMerge |-> NoBlock]

InitKeys ==
    /\ merging = NoMerge
    /\ inputTimers = 0

InitObs ==
    /\ fault = FALSE
    /\ lastOp = [op |-> "init"]

\* ------------------------------------------- cross-block drag specification
InitCross ==
    /\ InitRegistry(NumBlocks)
    /\ currentBlock = NoBlock
    /\ isRtl = FALSE
    /\ InitCBS /\ InitRect /\ InitCut /\ InitKeys /\ InitObs

\* A mousedown anywhere in the document, on a block or not.
CrossMouseDown ==
    \E button \in {0, 2}, inRedactor \in BOOLEAN, target \in Targets :
        /\ enableCrossBlockSelection(button, inRedactor, target)
        /\ pointerAt' = target
        /\ UNCHANGED <<rectVars, cutVars, keyVars>>

\* The pointer moves onto `target` (a block, or an element of no block): the
\* event's relatedTarget is the element the pointer leaves. A fast pointer
\* may skip blocks; leaving and re-entering the editing surface is a move to
\* NoBlock followed by a move from NoBlock.
CrossMouseOver ==
    \E target \in Targets :
        /\ onMouseOver(pointerAt, target)
        /\ pointerAt' = target
        /\ UNCHANGED <<rectVars, cutVars, keyVars>>

CrossMouseUp == onMouseUp /\ UNCHANGED <<pointerAt, rectVars, cutVars, keyVars>>

\* The pointer moves onto `target` while no mouseover listener is bound
\* (before the first mousedown, or after onMouseUp removed it): no handler
\* runs.
CrossMouseOverUnbound ==
    \E target \in Targets :
        /\ ~listening
        /\ target # pointerAt
        /\ pointerAt' = target
        /\ lastOp' = [op |-> "mouseoverUnbound", target |-> target]
        /\ UNCHANGED <<regVars, cbsVars, rectVars, cutVars, keyVars, fault>>

NextCross == CrossMouseDown \/ CrossMouseOver \/ CrossMouseUp \/ CrossMouseOverUnbound

SpecCross == InitCross /\ [][NextCross]_vars

\* The anchor of the armed drag is a block of the registry.
ArmedOnBlock == listening /\ firstSelectedBlock # NoBlock

\* C1 (the claim as stated, for a target other than the anchor): after a
\* mouseover of an armed drag that targets block t, the selected blocks are
\* exactly the blocks with index min(a, t)..max(a, t), a the anchor's index.
\* The code selects only the anchor and the target when the related block is
\* the anchor, whatever lies between them.
C1_SelectedIsAnchorTargetRange ==
    (/\ ArmedOnBlock
     /\ lastOp.op = "mouseover"
     /\ lastOp.target # NoBlock
     /\ lastOp.target # firstSelectedBlock)
    => SelectedIndices =
          Min(firstSelectedBlockIndex, indexOf(blocks, lastOp.target))
          ..Max(firstSelectedBlockIndex, indexOf(blocks, lastOp.target))

\* C2 (the claim as stated): after a mouseover of an armed drag whose related
\* target resolves to no block and whose target is the anchor block, no block
\* is selected.
C2_ReentryOnAnchorSelectsNothing ==
    (/\ ArmedOnBlock
     /\ lastOp.op = "mouseover"
     /\ lastOp.related = NoBlock
     /\ lastOp.target = firstSelectedBlock)
    => selected = {}

\* ----------------------------------------- CrossBlockSelection: Shift + arrow
\* Whether toggleBlockSelectedState(next) finds an adjacent block to step to
toggleSteps(next) ==
    LET last1 == IF lastSelectedBlock = NoBlock THEN currentBlock ELSE lastSelectedBlock
    IN  blockAt(blocks, indexOf(blocks, last1) + (IF next THEN 1 ELSE -1)) # NoBlock

\* Variant: the anchor block is not marked selected on the first invocation
toggleBlockSelectedState_anchorNotSelected(next) ==
    LET anchorless == lastSelectedBlock = NoBlock
        first1 == IF anchorless THEN currentBlock ELSE firstSelectedBlock
        last1 == IF anchorless THEN currentBlock ELSE lastSelectedBlock
        sel1 == selected
        nextBlockIndex == indexOf(blocks, last1) + (IF next THEN 1 ELSE -1)
        nextBlock == blockAt(blocks, nextBlockIndex)
    IN
    /\ UNCHANGED <<blocks, currentBlock, caret, nextId, docVars, firstSelectedBlockIndex,
                   endSelectedBlockIndex, listening>>
    /\ IF first1 = last1 /\ first1 = NoBlock
       THEN \* firstSelectedBlock is undefined: setting .selected throws
            /\ fault' = TRUE
            /\ firstSelectedBlock' = first1
            /\ lastSelectedBlock' = last1
            /\ UNCHANGED selected
       ELSE IF nextBlock = NoBlock
       THEN /\ selected' = sel1
            /\ firstSelectedBlock' = first1
            /\ lastSelectedBlock' = last1
            /\ UNCHANGED fault
       ELSE /\ selected' = IF (last1 \in sel1) # (nextBlock \in sel1)
                           THEN sel1 \cup {nextBlock}
                           ELSE sel1 \ {last1}
            /\ firstSelectedBlock' = first1
            /\ lastSelectedBlock' = nextBlock
            /\ UNCHANGED fault

\* Variant of toggleBlockSelectedState that never takes a block out of the
\* selection
toggleBlockSelectedState_neverShrinks(next) ==
    LET anchorless == lastSelectedBlock = NoBlock
        first1 == IF anchorless THEN currentBlock ELSE firstSelectedBlock
        last1 == IF anchorless THEN currentBlock ELSE lastSelectedBlock
        sel1 == IF first1 = last1 THEN selected \cup {first1} ELSE selected
        nextBlockIndex == indexOf(blocks, last1) + (IF next THEN 1 ELSE -1)
        nextBlock == blockAt(blocks, nextBlockIndex)
    IN
    /\ UNCHANGED <<blocks, currentBlock, caret, nextId, docVars, firstSelectedBlockIndex,
                   endSelectedBlockIndex, listening>>
    /\ IF first1 = last1 /\ first1 = NoBlock
       THEN /\ fault' = TRUE
            /\ firstSelectedBlock' = first1
            /\ lastSelectedBlock' = last1
            /\ UNCHANGED selected
       ELSE IF nextBlock = NoBlock
       THEN /\ selected' = sel1
            /\ firstSelectedBlock' = first1
            /\ lastSelectedBlock' = last1
            /\ UNCHANGED fault
       ELSE /\ selected' = sel1 \cup {nextBlock}
            /\ firstSelectedBlock' = first1
            /\ lastSelectedBlock' = nextBlock
            /\ UNCHANGED fault

\* toggleBlockSelectedState(next)
toggleBlockSelectedState(next) ==
    LET anchorless == lastSelectedBlock = NoBlock
        first1 == IF anchorless THEN currentBlock ELSE firstSelectedBlock
        last1 == IF anchorless THEN currentBlock ELSE lastSelectedBlock
        sel1 == IF first1 = last1 THEN selected \cup {first1} ELSE selected
        nextBlockIndex == indexOf(blocks, last1) + (IF next THEN 1 ELSE -1)
        nextBlock == blockAt(blocks, nextBlockIndex)
    IN
    /\ UNCHANGED <<blocks, currentBlock, caret, nextId, docVars, firstSelectedBlockIndex,
                   endSelectedBlockIndex, listening>>
    /\ IF first1 = last1 /\ first1 = NoBlock
       THEN \* firstSelectedBlock is undefined: setting .selected throws
            /\ fault' = TRUE
            /\ firstSelectedBlock' = first1
            /\ lastSelectedBlock' = last1
            /\ UNCHANGED selected
       ELSE IF nextBlock = NoBlock
       THEN /\ selected' = sel1
            /\ firstSelectedBlock' = first1
            /\ lastSelectedBlock' = last1
            /\ UNCHANGED fault
       ELSE /\ selected' = IF (last1 \in sel1) # (nextBlock \in sel1)
                           THEN sel1 \cup {nextBlock}
                           ELSE sel1 \ {last1}
            /\ firstSelectedBlock' = first1
            /\ lastSelectedBlock' = nextBlock
            /\ UNCHANGED fault

\* ------------------------------------------------------- BlockEvents: Cut
\* The selected blocks in document order (BlockSelection.selectedBlocks).
selectedBlocks == SelectSeq(blocks, LAMBDA b : b \in selected)

\* BlockManager.removeSelectedBlocks(): the list without the selected blocks;
\* it returns the index the first of them had (NotFound: none was selected).
removeSelectedBlocks == SelectSeq(blocks, LAMBDA b : b \notin selected)
selectionPositionIndex ==
    IF SelectedIndices = {} THEN NotFound
    ELSE CHOOSE i \in SelectedIndices : \A j \in SelectedIndices : i <= j

\* Variant of insertDefaultBlockAtIndex that appends the new block
insertDefaultBlockAtIndex_atEnd(bs, index, b) == Append(bs, b)

\* BlockManager.insertDefaultBlockAtIndex(index, needToFocus): bs with the new
\* block b at 0-based index
insertDefaultBlockAtIndex(bs, index, b) ==
    SubSeq(bs, 1, index) \o <<b>> \o SubSeq(bs, index + 1, Len(bs))

\* No promise is settled and waiting for its reaction: reactions are microtasks
\* and run before the next event is dispatched.
NoReactionPending == \A i \in 1..Len(cuts) : cuts[i].state = "pending"

\* Every promise still pending has seen another event since its Cut.
disturbed ==
    [i \in 1..Len(cuts) |->
        [cuts[i] EXCEPT !.clean = FALSE, !.blocks0 = <<>>, !.selected0 = {}]]

\* Variant of cutCallback: the default block is appended to the list instead
\* of being inserted at the index removeSelectedBlocks returned.
cutCallback_appends(at) ==
    /\ blocks' = Append(removeSelectedBlocks, nextId)
    /\ nextId' = nextId + 1
    /\ setToBlock(nextId, "start")
    /\ UNCHANGED <<content, tool>>
    /\ selected' = {}
    /\ clear
    /\ UNCHANGED <<firstSelectedBlockIndex, endSelectedBlockIndex, listening>>

\* The callback chained on the copy: remove the selected blocks, insert a
\* default block in their place, set the caret to its start, clear selection.
\* at: where the block goes when removeSelectedBlocks returned no index.
cutCallback(at) ==
    LET index == IF selectionPositionIndex = NotFound THEN at ELSE selectionPositionIndex
    IN
    /\ blocks' = insertDefaultBlockAtIndex(removeSelectedBlocks, index, nextId)
    /\ nextId' = nextId + 1
    /\ setToBlock(nextId, "start")
    /\ UNCHANGED <<content, tool>>
    /\ selected' = {}
    /\ clear
    /\ UNCHANGED <<firstSelectedBlockIndex, endSelectedBlockIndex, listening>>

\* Variant of handleCommandX: the removal is not chained on the copy but runs
\* in the handler itself.
handleCommandX_removesAtOnce ==
    /\ lastOp' = [op |-> "handleCommandX", started |-> anyBlockSelected]
    /\ IF ~anyBlockSelected
       THEN UNCHANGED <<cuts, cutsIssued, regVars, cbsVars>>
       ELSE /\ cutsIssued' = cutsIssued + 1
            /\ cuts' = Append(disturbed,
                              [id |-> cutsIssued + 1, state |-> "pending",
                               payload |-> selectedBlocks, blocks0 |-> blocks,
                               selected0 |-> selected, clean |-> TRUE,
                               chained |-> TRUE])
            /\ cutCallback(0)
    /\ UNCHANGED <<clipboard, fault>>

\* handleCommandX(event): returns when no block is selected; otherwise starts
\* the copy and chains the removal on the promise.
handleCommandX ==
    /\ lastOp' = [op |-> "handleCommandX", started |-> anyBlockSelected]
    /\ IF ~anyBlockSelected
       THEN UNCHANGED <<cuts, cutsIssued>>
       ELSE /\ cutsIssued' = cutsIssued + 1
            /\ cuts' = Append(disturbed,
                              [id |-> cutsIssued + 1, state |-> "pending",
                               payload |-> selectedBlocks, blocks0 |-> blocks,
                               selected0 |-> selected, clean |-> TRUE,
                               chained |-> TRUE])
    /\ UNCHANGED <<regVars, cbsVars, clipboard, fault>>

\* handleCommandC(event): returns when no block is selected; otherwise starts
\* the copy and chains nothing on its promise.
handleCommandC ==
    /\ lastOp' = [op |-> "handleCommandC", started |-> anyBlockSelected]
    /\ IF ~anyBlockSelected
       THEN UNCHANGED <<cuts, cutsIssued>>
       ELSE /\ cutsIssued' = cutsIssued + 1
            /\ cuts' = Append(disturbed,
                              [id |-> cutsIssued + 1, state |-> "pending",
                               payload |-> selectedBlocks, blocks0 |-> <<>>,
                               selected0 |-> {}, clean |-> FALSE,
                               chained |-> FALSE])
    /\ UNCHANGED <<regVars, cbsVars, clipboard, fault>>

\* BlockSelection.copySelectedBlocks(event), its completion: the promise of
\* copy i is fulfilled once the payload is on the clipboard, or rejected. A
\* promise with nothing chained on it has no reaction to wait for.
copySelectedBlocksSettles(i, ok) ==
    /\ cuts[i].state = "pending"
    /\ cuts' = IF cuts[i].chained
               THEN [cuts EXCEPT ![i].state = IF ok THEN "fulfilled" ELSE "rejected"]
               ELSE [j \in 1..(Len(cuts) - 1) |-> IF j < i THEN cuts[j] ELSE cuts[j + 1]]
    /\ clipboard' = IF ok THEN cuts[i].payload ELSE clipboard
    /\ lastOp' = [op |-> "copySettled", cut |-> cuts[i].id, ok |-> ok]
    /\ UNCHANGED <<regVars, cbsVars, cutsIssued, fault>>

\* Variant of thenRuns: the callback is registered for every settlement.
thenRuns_onSettle(state) == state # "pending"

\* `.then(callback)` registers a reaction for fulfilment only.
thenRuns(state) == state = "fulfilled"

\* The reaction to the settled promise of cut i.
promiseReaction(i, at) ==
    /\ cuts[i].state # "pending"
    /\ cuts' = [j \in 1..(Len(cuts) - 1) |->
                   LET c == IF j < i THEN cuts[j] ELSE cuts[j + 1]
                   IN  IF thenRuns(cuts[i].state) THEN disturbed[IF j < i THEN j ELSE j + 1]
                       ELSE c]
    /\ lastOp' = [op |-> IF cuts[i].state = "fulfilled" THEN "cutFulfilled" ELSE "cutRejected",
                  cut |-> cuts[i], ran |-> thenRuns(cuts[i].state)]
    /\ IF thenRuns(cuts[i].state)
       THEN cutCallback(at)
       ELSE UNCHANGED <<regVars, cbsVars>>
    /\ UNCHANGED <<clipboard, cutsIssued, fault>>

\* ------------------------------------------------------- cut specification
\* A document of CutBlocks blocks without text. The first block holds the
\* focus, in its input: Shift+ArrowUp selects that block alone, Shift+ArrowDown
\* grows the selection one block at a time.
InitCutSpec ==
    /\ blocks = [i \in 1..CutBlocks |-> i]
    /\ selected = {}
    /\ caret = [block |-> NoBlock, pos |-> "none"]
    /\ nextId = CutBlocks + 1
    /\ content = <<>>
    /\ tool = <<>>
    /\ currentBlock = 1
    /\ currentInput = 1
    /\ isRtl = FALSE
    /\ InitCBS /\ InitRect /\ InitCut /\ InitKeys /\ InitObs


\* 0-based index of the first block of bs that is in S
firstIndexIn(bs, S) ==
    (CHOOSE i \in 1..Len(bs) : bs[i] \in S /\ \A j \in 1..(i - 1) : bs[j] \notin S) - 1

\* C4: every step of a Cut that changes the block list (the removal of the
\* selected blocks and the insertion of the default block, with the clearing
\* of the selection in the same step) is the reaction to a copy that has
\* completed: its promise is fulfilled and its payload is on the clipboard
\* before the step.
C4_CopyCompletesBeforeRemoval ==
    [][blocks' # blocks =>
          \E i \in 1..Len(cuts) :
              /\ cuts[i].state = "fulfilled"
              /\ clipboard = cuts[i].payload
              /\ lastOp'.op = "cutFulfilled"
              /\ lastOp'.cut.id = cuts[i].id]_vars

\* C4 witness: a Cut has removed the blocks it copied.
C4_Witness ==
    /\ lastOp.op = "cutFulfilled"
    /\ lastOp.cut.payload # <<>>
    /\ \A k \in 1..Len(lastOp.cut.payload) : lastOp.cut.payload[k] \notin BlockIds
    /\ clipboard = lastOp.cut.payload

\* C5: when the copy started by a Cut is rejected, neither the rejection nor
\* the reaction to it changes the block list, the selected flags, the focused
\* block or the caret; with no other event since the Cut, the block list and
\* the selected flags are those the Cut found.
C5_RejectedCopyRemovesNothing ==
    [][((lastOp'.op = "copySettled" /\ ~lastOp'.ok) \/ lastOp'.op = "cutRejected") =>
          /\ UNCHANGED <<blocks, selected, currentBlock, caret>>
          /\ (lastOp'.op = "cutRejected" /\ lastOp'.cut.clean) =>
                 /\ blocks' = lastOp'.cut.blocks0
                 /\ selected' = lastOp'.cut.selected0]_vars

\* C5 witness: a copy was rejected with blocks selected and nothing in between.
C5_Witness ==
    /\ lastOp.op = "cutRejected"
    /\ lastOp.cut.clean
    /\ selected # {}
    /\ selected = lastOp.cut.selected0

\* C6: after a Cut with N >= 1 blocks selected has completed, with no other
\* event between the Cut and its completion: the clipboard holds exactly the
\* N blocks, none of them is in the block list, the list is the old list with
\* the N blocks removed and one new block at the index of the first of them,
\* the caret is at the start of the new block and no block is selected.
C6_CutReplacesSelection ==
    (lastOp.op = "cutFulfilled" /\ lastOp.cut.clean) =>
        LET c == lastOp.cut
            at == firstIndexIn(c.blocks0, c.selected0)
            kept == SelectSeq(c.blocks0, LAMBDA b : b \notin c.selected0)
            new == blockAt(blocks, at)
        IN  /\ c.selected0 # {}
            /\ c.payload = SelectSeq(c.blocks0, LAMBDA b : b \in c.selected0)
            /\ clipboard = c.payload
            /\ \A b \in c.selected0 : b \notin BlockIds
            /\ new # NoBlock
            /\ new \notin {c.blocks0[k] : k \in 1..Len(c.blocks0)}
            /\ blocks = SubSeq(kept, 1, at) \o <<new>> \o SubSeq(kept, at + 1, Len(kept))
            /\ Len(blocks) = Len(c.blocks0) - Cardinality(c.selected0) + 1
            /\ caret = [block |-> new, pos |-> "start"]
            /\ selected = {}

\* C6 witness: a Cut of two or more blocks completed undisturbed and left other
\* blocks after the inserted one.
C6_Witness ==
    /\ lastOp.op = "cutFulfilled"
    /\ lastOp.cut.clean
    /\ Cardinality(lastOp.cut.selected0) >= 2
    /\ Len(blocks) >= 2
    /\ caret.block # blocks[Len(blocks)]

\* ------------------------------------------------------ RectangleSelection
\* Program constants
HEIGHT_OF_SCROLL_ZONE == 100
speed == 4
MAIN_MOUSE_BUTTON == 0
ReferenceHeight == 768

\* The page the engine runs in: window.innerHeight, scrollContainer.offsetWidth,
\* the computed width of the last block's content element, the largest
\* scrollTop of the scroll container. The window itself is not scrolled and
\* the container is not scrolled sideways (scrollX = scrollY = scrollLeft = 0).
innerHeight == 768
offsetWidth == 6
contentWidth == 2
maxScrollTop == 4

\* Pointer coordinates that occur: left of, inside and right of the content
\* column; inside the top scroll band, between the bands, inside the bottom one.
PageXs == {1, 3, 5}
PageYs == {50, 384, 718}

\* `let index;` never assigned: the hit test resolved no block.
NoIndex == -2

\* Variant: the content's whole width is taken off the centre, not its half
leftPos_wholeWidth == offsetWidth \div 2 - contentWidth

\* genInfoForMouseSelection(): leftPos and rightPos
centerOfRedactor == offsetWidth \div 2
leftPos == centerOfRedactor - contentWidth \div 2
rightPos == centerOfRedactor + contentWidth \div 2

Last(q) == q[Len(q)]
Front(q) == SubSeq(q, 1, Len(q) - 1)
seqIds(q) == {blockAt(blocks, q[k]) : k \in 1..Len(q)} \ {NoBlock}

\* BlockSelection.selectBlockByIndex / unSelectBlockByIndex
selectBlockByIndex(sel, i) == sel \cup ({blockAt(blocks, i)} \ {NoBlock})
unSelectBlockByIndex(sel, i) == sel \ {blockAt(blocks, i)}

\* Variant: only the block under the pointer is added, blocks the pointer
\* jumped over are not
addBlocksInSelection_onlyTarget(st, crosses, from, to, step) ==
    [stack |-> Append(st.stack, to),
     sel |-> IF crosses THEN selectBlockByIndex(st.sel, to) ELSE st.sel]

\* addBlockInSelection(index) for index = from, from + step, ..., to
RECURSIVE addBlocksInSelection(_, _, _, _, _)
addBlocksInSelection(st, crosses, from, to, step) ==
    IF (step > 0 /\ from > to) \/ (step < 0 /\ from < to)
    THEN st
    ELSE addBlocksInSelection(
             [stack |-> Append(st.stack, from),
              sel |-> IF crosses THEN selectBlockByIndex(st.sel, from) ELSE st.sel],
             crosses, from + step, to, step)

\* The closing loop of trySelectNextBlock: pop while cmp() holds
RECURSIVE popWhile(_, _, _, _)
popWhile(st, crosses, index, greater) ==
    IF st.stack = <<>> THEN st
    ELSE IF (greater /\ index > Last(st.stack)) \/ (~greater /\ index < Last(st.stack))
    THEN popWhile([stack |-> Front(st.stack),
                   sel |-> IF crosses THEN unSelectBlockByIndex(st.sel, Last(st.stack))
                           ELSE st.sel],
                  crosses, index, greater)
    ELSE st

\* direction as trySelectNextBlock derives it: 1 down, -1 up, 0 undetermined
direction(stack) ==
    IF Len(stack) > 1
    THEN IF stack[Len(stack)] - stack[Len(stack) - 1] > 0 THEN 1 ELSE -1
    ELSE 0

\* The move goes against the established direction (`reduction` for an index
\* other than the top of the stack)
reverses(stack, index) ==
    /\ Len(stack) > 1
    /\ \/ direction(stack) = 1 /\ index < Last(stack)
       \/ direction(stack) = -1 /\ index > Last(stack)

\* The move passes over at least one block between the top of the stack and
\* the index it resolves
jumps(stack, index) ==
    /\ stack # <<>>
    /\ index - Last(stack) > 1 \/ Last(stack) - index > 1

\* trySelectNextBlock(index): [stack, sel] after the call
trySelectNextBlock(stack, sel, crosses, index) ==
    LET sizeStack == Len(stack)
        hasTop == sizeStack > 0
        top == IF hasTop THEN stack[sizeStack] ELSE NoIndex
        sameBlock == hasTop /\ top = index
        dir == direction(stack)
        selectionInDownDirection == hasTop /\ index > top /\ dir = 1
        selectionInUpDirection == hasTop /\ index < top /\ dir = -1
        generalSelection == selectionInDownDirection \/ selectionInUpDirection \/ dir = 0
        reduction == ~generalSelection
        st == [stack |-> stack, sel |-> sel]
    IN  IF sameBlock THEN st
        ELSE IF ~reduction /\ ((hasTop /\ index > top) \/ ~hasTop)
        THEN addBlocksInSelection(st, crosses,
                                  IF hasTop /\ top + 1 # 0 THEN top + 1 ELSE index,
                                  index, 1)
        ELSE IF ~reduction /\ index < top
        THEN addBlocksInSelection(st, crosses, top - 1, index, -1)
        ELSE IF ~reduction THEN st
        ELSE popWhile(st, crosses, index, index > top)

\* Variant: only the first stacked block follows the overlap flag
inverseSelection_onlyFirst(stack, sel, crosses) ==
    LET firstBlockInStack == IF stack = <<>> THEN NoBlock ELSE blockAt(blocks, stack[1])
    IN  IF firstBlockInStack = NoBlock THEN sel
        ELSE IF crosses THEN sel \cup {firstBlockInStack}
        ELSE sel \ {firstBlockInStack}

\* inverseSelection(): the selected set after the call
inverseSelection(stack, sel, crosses) ==
    LET firstBlockInStack == IF stack = <<>> THEN NoBlock ELSE blockAt(blocks, stack[1])
        isSelectedMode == firstBlockInStack # NoBlock /\ firstBlockInStack \in sel
    IN  IF crosses /\ ~isSelectedMode THEN sel \cup seqIds(stack)
        ELSE IF ~crosses /\ isSelectedMode THEN sel \ seqIds(stack)
        ELSE sel

\* shrinkRectangleToPoint() followed by updateRectangleSize(): the overlay's
\* four offsets (right and bottom: the length inside the style's expression)
updateRectangleSize(sx, sy, mx, my) ==
    [display |-> "block",
     top |-> IF my + scrollTop >= sy THEN sy - scrollTop ELSE my,
     bottom |-> IF my + scrollTop >= sy THEN 0 - my ELSE 0 - (sy - scrollTop),
     left |-> IF mx >= sx THEN sx ELSE mx,
     right |-> IF mx >= sx THEN mx ELSE sx]

\* Variant of changingRectangle that treats the first move of a drag as any other
changingRectangle_noFirstMove(pageX, pageY, index) ==
    IF ~mousedown
    THEN UNCHANGED <<mouseX, mouseY, rectCrossesBlocks, isRectSelectionActivated,
                     overlayRectangle, stackOfSelected, selected>>
    ELSE LET rectIsOnRighSideOfredactor == startX > rightPos /\ pageX > rightPos
             rectISOnLeftSideOfRedactor == startX < leftPos /\ pageX < leftPos
             crosses == ~(rectIsOnRighSideOfredactor \/ rectISOnLeftSideOfRedactor)
             st == trySelectNextBlock(stackOfSelected, selected, crosses, index)
         IN  /\ mouseX' = pageX
             /\ mouseY' = pageY
             /\ rectCrossesBlocks' = crosses
             /\ isRectSelectionActivated' = TRUE
             /\ overlayRectangle' = updateRectangleSize(startX, startY, pageX, pageY)
             /\ IF index = NoIndex
                THEN UNCHANGED <<stackOfSelected, selected>>
                ELSE /\ stackOfSelected' = st.stack
                     /\ selected' = inverseSelection(st.stack, st.sel, crosses)

\* Variant of changingRectangle that re-applies the overlap flag to the stack
\* also when the hit-test resolves no block
changingRectangle_alwaysInverts(pageX, pageY, index) ==
    IF ~mousedown
    THEN UNCHANGED <<mouseX, mouseY, rectCrossesBlocks, isRectSelectionActivated,
                     overlayRectangle, stackOfSelected, selected>>
    ELSE LET rectIsOnRighSideOfredactor == startX > rightPos /\ pageX > rightPos
             rectISOnLeftSideOfRedactor == startX < leftPos /\ pageX < leftPos
             crosses == IF ~isRectSelectionActivated THEN FALSE
                        ELSE ~(rectIsOnRighSideOfredactor \/ rectISOnLeftSideOfRedactor)
             st == trySelectNextBlock(stackOfSelected, selected, crosses, index)
         IN  /\ mouseX' = pageX
             /\ mouseY' = pageY
             /\ rectCrossesBlocks' = crosses
             /\ isRectSelectionActivated' = TRUE
             /\ overlayRectangle' = updateRectangleSize(startX, startY, pageX, pageY)
             /\ IF index = NoIndex
                THEN /\ UNCHANGED stackOfSelected
                     /\ selected' = inverseSelection(stackOfSelected, selected, crosses)
                ELSE /\ stackOfSelected' = st.stack
                     /\ selected' = inverseSelection(st.stack, st.sel, crosses)

\* changingRectangle(event). index: what genInfoForMouseSelection resolves.
changingRectangle(pageX, pageY, index) ==
    IF ~mousedown
    THEN UNCHANGED <<mouseX, mouseY, rectCrossesBlocks, isRectSelectionActivated,
                     overlayRectangle, stackOfSelected, selected>>
    ELSE LET rectIsOnRighSideOfredactor == startX > rightPos /\ pageX > rightPos
             rectISOnLeftSideOfRedactor == startX < leftPos /\ pageX < leftPos
             crosses == IF ~isRectSelectionActivated THEN FALSE
                        ELSE ~(rectIsOnRighSideOfredactor \/ rectISOnLeftSideOfRedactor)
             st == trySelectNextBlock(stackOfSelected, selected, crosses, index)
         IN  /\ mouseX' = pageX
             /\ mouseY' = pageY
             /\ rectCrossesBlocks' = crosses
             /\ isRectSelectionActivated' = TRUE
             /\ overlayRectangle' = updateRectangleSize(startX, startY, pageX, pageY)
             /\ IF index = NoIndex
                THEN UNCHANGED <<stackOfSelected, selected>>
                ELSE /\ stackOfSelected' = st.stack
                     /\ selected' = inverseSelection(st.stack, st.sel, crosses)

\* Element.scrollBy(0, speed): the browser keeps scrollTop within its range
scrollBy(top, by) == Max(0, Min(maxScrollTop, top + by))

\* scrollVertical(speed): scrolls and schedules itself again while the pointer
\* is in a scroll zone and the mouse is down. rest: the timeouts still pending.
scrollVertical(by, zone, rest, stale) ==
    IF ~(zone /\ mousedown)
    THEN /\ timers' = rest
         /\ UNCHANGED scrollTop
    ELSE /\ scrollTop' = scrollBy(scrollTop, by)
         /\ timers' = Append(rest, [speed |-> by, stale |-> stale])

\* scrollByZones(mouseEvent)
scrollByZones(clientY) ==
    LET distanceFromTop == clientY
        distanceFromBottom == innerHeight - clientY
        deltaY == IF distanceFromTop < HEIGHT_OF_SCROLL_ZONE
                  THEN 0 - (HEIGHT_OF_SCROLL_ZONE - distanceFromTop)
                  ELSE IF distanceFromBottom < HEIGHT_OF_SCROLL_ZONE
                  THEN HEIGHT_OF_SCROLL_ZONE - distanceFromBottom
                  ELSE 0
        zone == distanceFromTop < HEIGHT_OF_SCROLL_ZONE
                \/ distanceFromBottom < HEIGHT_OF_SCROLL_ZONE
    IN  /\ inScrollZone' = zone
        /\ IF ~zone
           THEN UNCHANGED <<scrollTop, timers>>
           ELSE scrollVertical((deltaY * speed * speedFactory) \div HEIGHT_OF_SCROLL_ZONE,
                               zone, timers, FALSE)

\* The timeout set by scrollVertical fires: scrollVertical(speed) again
scrollTimeout ==
    /\ timers # <<>>
    /\ scrollVertical(Head(timers).speed, inScrollZone, Tail(timers), Head(timers).stale)
    /\ lastOp' = [op |-> "timeout", stale |-> Head(timers).stale,
                  scrolled |-> inScrollZone /\ mousedown]
    /\ UNCHANGED <<regVars, cbsVars, pointerAt, cutVars, keyVars, fault,
                   isRectSelectionActivated, mousedown, inScrollZone, startX, startY,
                   mouseX, mouseY, stackOfSelected, rectCrossesBlocks, overlayRectangle,
                   speedFactory>>

\* Variant of clearSelection that leaves the activation flag as it is
rectClearSelection_keepsFlag == UNCHANGED isRectSelectionActivated

\* clearSelection()
rectClearSelection == isRectSelectionActivated' = FALSE

\* Variant: the drag's origin is kept when the drag ends
endSelection_keepsOrigin ==
    /\ speedFactory' = 1
    /\ mousedown' = FALSE
    /\ UNCHANGED <<startX, startY>>
    /\ overlayRectangle' = [overlayRectangle EXCEPT !.display = "none"]

\* endSelection()
endSelection ==
    /\ speedFactory' = 1
    /\ mousedown' = FALSE
    /\ startX' = 0
    /\ startY' = 0
    /\ overlayRectangle' = [overlayRectangle EXCEPT !.display = "none"]

\* Variant of startSelection that starts a drag inside a block's content too
startSelection_insideContent(elem, pageX, pageY) ==
    /\ IF elem # "toolbar"
       THEN /\ selected' = {}
            /\ isRectSelectionActivated' = FALSE
            /\ stackOfSelected' = <<>>
       ELSE UNCHANGED <<selected, isRectSelectionActivated, stackOfSelected>>
    /\ IF elem \in {"toolbar", "inlineToolbar"}
       THEN UNCHANGED <<speedFactory, mousedown, startX, startY>>
       ELSE /\ speedFactory' = innerHeight \div ReferenceHeight
            /\ mousedown' = TRUE
            /\ startX' = pageX
            /\ startY' = pageY + scrollTop

\* startSelection(event). elem: where document.elementFromPoint lands:
\* "toolbar", "inlineToolbar", "content" (a block's content) or "other".
startSelection(elem, pageX, pageY) ==
    /\ IF elem # "toolbar"
       THEN /\ selected' = {}
            /\ isRectSelectionActivated' = FALSE
            /\ stackOfSelected' = <<>>
       ELSE UNCHANGED <<selected, isRectSelectionActivated, stackOfSelected>>
    /\ IF elem \in {"content", "toolbar", "inlineToolbar"}
       THEN UNCHANGED <<speedFactory, mousedown, startX, startY>>
       ELSE /\ speedFactory' = innerHeight \div ReferenceHeight
            /\ mousedown' = TRUE
            /\ startX' = pageX
            /\ startY' = pageY + scrollTop

\* The container's mousedown listener and processMouseDown(mouseEvent).
\* inInput: the event's target is inside an editable input.
processMouseDown(editorVisible, button, inInput, elem, pageX, pageY) ==
    /\ lastOp' = [op |-> "rectMousedown", button |-> button, elem |-> elem,
                  plain |-> editorVisible /\ ~inInput]
    /\ IF editorVisible /\ button = MAIN_MOUSE_BUTTON /\ ~inInput
       THEN startSelection(elem, pageX, pageY)
       ELSE UNCHANGED <<selected, isRectSelectionActivated, stackOfSelected,
                        speedFactory, mousedown, startX, startY>>
    /\ UNCHANGED <<blocks, currentBlock, caret, nextId, docVars, cbsVars, pointerAt, cutVars, keyVars, fault,
                   inScrollZone, mouseX, mouseY, rectCrossesBlocks, overlayRectangle,
                   scrollTop, timers>>

\* processMouseMove(mouseEvent)
processMouseMove(pageX, pageY, index) ==
    /\ changingRectangle(pageX, pageY, index)
    /\ scrollByZones(pageY)
    /\ lastOp' = [op |-> "mousemove", index |-> index,
                  reversal |-> (mousedown /\ index # NoIndex
                                /\ reverses(stackOfSelected, index)),
                  jump |-> (mousedown /\ index # NoIndex
                            /\ jumps(stackOfSelected, index))]
    /\ UNCHANGED <<blocks, currentBlock, caret, nextId, docVars, cbsVars, pointerAt, cutVars, keyVars, fault,
                   mousedown, startX, startY, speedFactory>>

\* processScroll(event): a scroll event carries no pageX / pageY
processScroll(index) ==
    /\ changingRectangle(0, 0, index)
    /\ lastOp' = [op |-> "scroll", index |-> index,
                  reversal |-> (mousedown /\ index # NoIndex
                                /\ reverses(stackOfSelected, index))]
    /\ UNCHANGED <<blocks, currentBlock, caret, nextId, docVars, cbsVars, pointerAt, cutVars, keyVars, fault,
                   mousedown, startX, startY, speedFactory, inScrollZone, scrollTop, timers>>

\* The drag that started the pending timeouts has ended.
ended == [i \in 1..Len(timers) |-> [timers[i] EXCEPT !.stale = TRUE]]

\* processMouseUp()
processMouseUp ==
    /\ rectClearSelection
    /\ endSelection
    /\ timers' = ended
    /\ lastOp' = [op |-> "mouseup"]
    /\ UNCHANGED <<regVars, cbsVars, pointerAt, cutVars, keyVars, fault, inScrollZone, mouseX, mouseY,
                   stackOfSelected, rectCrossesBlocks, scrollTop>>

\* processMouseLeave()
processMouseLeave ==
    /\ rectClearSelection
    /\ endSelection
    /\ timers' = ended
    /\ lastOp' = [op |-> "mouseleave"]
    /\ UNCHANGED <<regVars, cbsVars, pointerAt, cutVars, keyVars, fault, inScrollZone, mouseX, mouseY,
                   stackOfSelected, rectCrossesBlocks, scrollTop>>

\* ------------------------------------------------- rectangle specification
\* The selection side of the engine: the pointer stays between the scroll
\* bands, so no autoscroll runs; what a scroll changes for the stack and the
\* selected flags is the block the hit test resolves, which every move draws
\* afresh.
InitRectSpec ==
    /\ InitRegistry(RectBlocks)
    /\ currentBlock = NoBlock
    /\ isRtl = FALSE
    /\ InitCBS /\ InitRect /\ InitCut /\ InitKeys /\ InitObs

Indices == 0..(Len(blocks) - 1)

BetweenBands == {y \in PageYs : y >= HEIGHT_OF_SCROLL_ZONE
                                /\ innerHeight - y >= HEIGHT_OF_SCROLL_ZONE}

StartElems == {"toolbar", "inlineToolbar", "content", "other"}

\* A mousedown on the container. A start inside a block's content lies in the
\* content column; an editable input is never the bare container.
RectMouseDown ==
    \E editorVisible \in BOOLEAN, button \in {0, 2}, inInput \in BOOLEAN,
       elem \in StartElems, pageX \in PageXs, pageY \in BetweenBands :
        /\ elem = "content" => (pageX >= leftPos /\ pageX <= rightPos)
        /\ inInput => elem # "other"
        /\ processMouseDown(editorVisible, button, inInput, elem, pageX, pageY)

RectMouseMove ==
    \E pageX \in PageXs, pageY \in BetweenBands, index \in Indices \cup {NoIndex} :
        processMouseMove(pageX, pageY, index)

RectScroll == \E index \in Indices \cup {NoIndex} : processScroll(index)

RectMouseUp == processMouseUp

RectMouseLeave == processMouseLeave

NextRect ==
    \/ RectMouseDown \/ RectMouseMove \/ RectScroll \/ RectMouseUp \/ RectMouseLeave

SpecRect == InitRectSpec /\ [][NextRect]_vars

IsPrefix(p, q) == Len(p) <= Len(q) /\ SubSeq(q, 1, Len(p)) = p

IsRun(q) == \E d \in {1, -1} : \A k \in 1..(Len(q) - 1) : q[k + 1] = q[k] + d

\* C3: in every reachable state the stack of selected indices is a
\* consecutive run, rising by one throughout or falling by one throughout
\* (so no index is repeated), and a move that reverses the direction of
\* travel only takes entries off the top of the stack.
C3_StackIsConsecutiveRun ==
    /\ [](IsRun(stackOfSelected))
    /\ [][(lastOp'.op \in {"mousemove", "scroll"} /\ lastOp'.reversal)
          => (IsPrefix(stackOfSelected', stackOfSelected)
              /\ stackOfSelected' # stackOfSelected)]_vars

\* A reversal has taken the top off a run and left a run of two behind.
C3_Witness ==
    /\ lastOp.op = "mousemove"
    /\ lastOp.reversal
    /\ Len(stackOfSelected) = 2
    /\ Last(stackOfSelected) = lastOp.index

DragEnded == lastOp.op \in {"mouseup", "mouseleave"}

\* C9: after mouseup or mouseleave the rectangle is not activated, the mouse
\* is not down, the origin is (0, 0) and the overlay is hidden; and while no
\* accepted mousedown has followed, no pointer move and no scroll event
\* changes the overlay, the stack or any block's selected flag.
C9_InertAfterDragEnd ==
    /\ [](DragEnded => /\ ~isRectSelectionActivated
                       /\ ~mousedown
                       /\ startX = 0 /\ startY = 0
                       /\ overlayRectangle.display = "none")
    /\ [][(~mousedown /\ lastOp'.op \in {"mousemove", "scroll"})
          => UNCHANGED <<overlayRectangle, stackOfSelected, selected>>]_vars

\* A pointer move over a block after a drag that left blocks selected ended.
C9_Witness ==
    /\ lastOp.op = "mousemove"
    /\ lastOp.index # NoIndex
    /\ ~mousedown
    /\ overlayRectangle.display = "none"
    /\ stackOfSelected # <<>>
    /\ selected # {}

\* ------------------------------------------------ autoscroll specification
\* The scrolling side of the engine: drags whose pointer enters the scroll
\* bands, and the timeouts they leave pending.
InitScrollSpec ==
    /\ InitRegistry(ScrollBlocks)
    /\ currentBlock = NoBlock
    /\ isRtl = FALSE
    /\ InitCBS /\ InitRect /\ InitCut /\ InitKeys /\ InitObs

ScrollMouseDown ==
    \E button \in {0, 2}, elem \in {"content", "other"}, pageY \in PageYs :
        processMouseDown(TRUE, button, FALSE, elem, centerOfRedactor, pageY)

\* A move into a scroll band starts a chain; MaxChains bounds how many
\* timeouts are pending at once.
ScrollMouseMove ==
    \E pageY \in PageYs, index \in Indices \cup {NoIndex} :
        /\ Len(timers) < MaxChains
        /\ processMouseMove(centerOfRedactor, pageY, index)

ScrollTimeout == scrollTimeout

ScrollMouseUp == processMouseUp

ScrollMouseLeave == processMouseLeave

NextScroll ==
    \/ ScrollMouseDown \/ ScrollMouseMove \/ ScrollTimeout
    \/ ScrollMouseUp \/ ScrollMouseLeave

SpecScroll == InitScrollSpec /\ [][NextScroll]_vars

LiveChains == {i \in 1..Len(timers) : ~timers[i].stale}

\* C7: during a drag at most one autoscroll chain is live: a move inside a
\* scroll band while a chain of this drag is pending starts no second one.
C7_AtMostOneChain == Cardinality(LiveChains) <= 1

\* C8: a chain whose drag has ended does not scroll and does not schedule
\* itself again when its pending timeout fires, also when a new mousedown was
\* accepted in between.
C8_EndedChainStops ==
    (lastOp.op = "timeout" /\ lastOp.stale) => ~lastOp.scrolled

\* ---------------------------------------------------- one drag, ten blocks
\* A document of ScenarioBlocks blocks and drags whose pointer, once over the
\* blocks, stays over blocks 2 to 5: it may jump, wander back and forth, pass
\* over gaps that resolve no block, and leave and re-enter the content column.
InitDragSpec ==
    /\ InitRegistry(ScenarioBlocks)
    /\ currentBlock = NoBlock
    /\ isRtl = FALSE
    /\ InitCBS /\ InitRect /\ InitCut /\ InitKeys /\ InitObs

DragMouseDown ==
    \E pageX \in PageXs, pageY \in BetweenBands :
        processMouseDown(TRUE, MAIN_MOUSE_BUTTON, FALSE, "other", pageX, pageY)

DragMouseMove ==
    \E pageX \in PageXs, pageY \in BetweenBands, index \in (2..5) \cup {NoIndex} :
        processMouseMove(pageX, pageY, index)

DragMouseUp == processMouseUp

NextDrag == DragMouseDown \/ DragMouseMove \/ DragMouseUp

SpecDrag == InitDragSpec /\ [][NextDrag]_vars

\* C10: in a document of ten blocks, a drag that first reaches the blocks at
\* block 2 and whose latest pointer move is over block 5 with the rectangle
\* overlapping the content column has exactly blocks 2, 3, 4 and 5 selected.
C10_DragSelectsTwoToFive ==
    (/\ mousedown
     /\ lastOp.op = "mousemove"
     /\ lastOp.index = 5
     /\ rectCrossesBlocks
     /\ stackOfSelected # <<>>
     /\ stackOfSelected[1] = 2)
    => SelectedIndices = 2..5

\* Such a drag: the pointer is over block 5 and the rectangle overlaps.
C10_Witness ==
    /\ Len(blocks) = ScenarioBlocks
    /\ mousedown
    /\ lastOp.op = "mousemove"
    /\ lastOp.index = 5
    /\ rectCrossesBlocks
    /\ stackOfSelected = <<2, 3, 4, 5>>

\* ------------------------------------------------- drags beside the column
\* Drags that start in a margin beside the content column and whose pointer
\* stays in that margin, over any block's row or over none.
ColumnLeft == (offsetWidth - contentWidth) \div 2
ColumnRight == (offsetWidth + contentWidth) \div 2

Beside(x0, x) == (x0 < ColumnLeft /\ x < ColumnLeft) \/ (x0 > ColumnRight /\ x > ColumnRight)

InitMarginSpec ==
    /\ InitRegistry(RectBlocks)
    /\ currentBlock = NoBlock
    /\ isRtl = FALSE
    /\ InitCBS /\ InitRect /\ InitCut /\ InitKeys /\ InitObs

MarginMouseDown ==
    \E pageX \in PageXs, pageY \in BetweenBands :
        /\ Beside(pageX, pageX)
        /\ processMouseDown(TRUE, MAIN_MOUSE_BUTTON, FALSE, "other", pageX, pageY)

MarginMouseMove ==
    \E pageX \in PageXs, pageY \in BetweenBands, index \in Indices \cup {NoIndex} :
        /\ mousedown => Beside(startX, pageX)
        /\ processMouseMove(pageX, pageY, index)

MarginMouseUp == processMouseUp

NextMargin == MarginMouseDown \/ MarginMouseMove \/ MarginMouseUp

SpecMargin == InitMarginSpec /\ [][NextMargin]_vars

\* C11: a drag whose rectangle stays beside the content column, to its left
\* or to its right, selects no block, and the overlap flag is false after
\* every pointer move of the drag.
C11_DragBesideColumnSelectsNothing ==
    /\ selected = {}
    /\ (mousedown /\ lastOp.op = "mousemove") => ~rectCrossesBlocks

\* A drag in the right margin has passed over several blocks.
C11_Witness ==
    /\ mousedown
    /\ lastOp.op = "mousemove"
    /\ startX > ColumnRight /\ mouseX > ColumnRight
    /\ Len(stackOfSelected) >= 2
    /\ selected = {}

\* ------------------------------------------------- BlockEvents: the keys
\* The tools of the document: the default tool (text, mergeable with itself),
\* a text tool with two inputs, a tool with media, a tool that handles line
\* breaks itself.
ToolPattern == <<"paragraph", "paragraph", "quote", "image", "code">>

\* content with block b's text replaced by text
withContent(c, b, text) ==
    [x \in (DOMAIN c \ {b}) \cup (IF text = <<>> THEN {} ELSE {b}) |->
        IF x = b THEN text ELSE c[x]]

\* The text slashPressed inserts: '/', a piece no block holds at the start.
SlashText == 0

\* Block: inputs.length, hasMedia, tool.isLineBreaksEnabled, isEmpty
hasMedia(b) == toolOf(b) = "image"
isLineBreaksEnabled(b) == toolOf(b) = "code"
isEmpty(b) == contentOf(b) = <<>> /\ ~hasMedia(b)

\* areBlocksMergeable(targetBlock, blockToMerge)
areBlocksMergeable(targetBlock, blockToMerge) ==
    toolOf(targetBlock) = defaultTool /\ toolOf(blockToMerge) = toolOf(targetBlock)

\* BlockManager: currentBlockIndex, previousBlock, nextBlock
currentBlockIndex == indexOf(blocks, currentBlock)
previousBlock ==
    IF currentBlockIndex <= 0 THEN NoBlock ELSE blockAt(blocks, currentBlockIndex - 1)
nextBlock ==
    IF currentBlockIndex = Len(blocks) - 1 THEN NoBlock
    ELSE blockAt(blocks, currentBlockIndex + 1)

\* Variant of removeBlock that drops the last block of the list
removeBlock_dropsLast(b) == SubSeq(blocks, 1, Len(blocks) - 1)

\* BlockManager.removeBlock(block): the list without it. The current block
\* stays current; when it is the one removed, the block before it (the first
\* block, when there is none before) becomes current.
removeBlock(b) == SelectSeq(blocks, LAMBDA x : x # b)
currentAfterRemove(b) ==
    IF b # currentBlock THEN currentBlock
    ELSE blockAt(removeBlock(b), Max(currentBlockIndex - 1, 0))

\* Caret.setToInput(input, position) within the current block
setToInput(i, pos) ==
    /\ currentInput' = i
    /\ caret' = [block |-> currentBlock, pos |-> pos]
    /\ UNCHANGED currentBlock

\* mergeBlocks(targetBlock, blockToMerge): focus() puts the caret at the end of
\* the target's last input, BlockManager.mergeBlocks is started, and the
\* handler returns with its promise pending.
mergeBlocks(targetBlock, blockToMerge) ==
    /\ caret' = [block |-> targetBlock, pos |-> "end"]
    /\ merging' = [target |-> targetBlock, blockToMerge |-> blockToMerge]
    /\ UNCHANGED <<blocks, selected, currentBlock, currentInput, nextId, content, tool>>

\* Variant of mergeBlocksSettles that drops the text of the block merged away
mergeBlocksSettles_dropsText ==
    /\ merging # NoMerge
    /\ blocks' = removeBlock(merging.blockToMerge)
    /\ content' = withContent(content, merging.blockToMerge, <<>>)
    /\ selected' = selected \ {merging.blockToMerge}
    /\ currentBlock' = merging.target
    /\ currentInput' = numInputs(merging.target)
    /\ merging' = NoMerge
    /\ lastOp' = [op |-> "mergeSettled", target |-> merging.target,
                  blockToMerge |-> merging.blockToMerge]
    /\ UNCHANGED <<caret, nextId, tool, cbsVars, fault, isRtl, inputTimers>>

\* BlockManager.mergeBlocks(targetBlock, blockToMerge), its completion: the
\* text of blockToMerge is appended to the target, blockToMerge is removed and
\* the target is the current block, on its last input; the promise is
\* fulfilled (the toolbar is closed then).
mergeBlocksSettles ==
    /\ merging # NoMerge
    /\ blocks' = removeBlock(merging.blockToMerge)
    /\ content' = withContent(withContent(content, merging.blockToMerge, <<>>),
                              merging.target,
                              contentOf(merging.target) \o contentOf(merging.blockToMerge))
    /\ selected' = selected \ {merging.blockToMerge}
    /\ currentBlock' = merging.target
    /\ currentInput' = numInputs(merging.target)
    /\ merging' = NoMerge
    /\ lastOp' = [op |-> "mergeSettled", target |-> merging.target,
                  blockToMerge |-> merging.blockToMerge]
    /\ UNCHANGED <<caret, nextId, tool, cbsVars, fault, isRtl, inputTimers>>

\* BlockManager.removeBlock(block) as the handlers call it on another block
\* than the current one
removeOther(b) ==
    /\ blocks' = removeBlock(b)
    /\ content' = withContent(content, b, <<>>)
    /\ selected' = selected \ {b}
    /\ UNCHANGED <<currentBlock, currentInput, caret, nextId, tool, merging>>

\* BlockManager.removeBlock(currentBlock), then Caret.setToBlock(to, pos)
removeCurrent(to, pos) ==
    /\ blocks' = removeBlock(currentBlock)
    /\ content' = withContent(content, currentBlock, <<>>)
    /\ selected' = selected \ {currentBlock}
    /\ setToBlock(to, pos)
    /\ UNCHANGED <<nextId, tool, merging>>

keyFrame == <<pointerAt, rectVars, cutVars>>

\* backspace(event). collapsed: SelectionUtils.isCollapsed; atStart:
\* isCaretAtStartOfInput(currentBlock.currentInput)
backspace(collapsed, atStart) ==
    /\ UNCHANGED <<cbsVars, fault, keyFrame, isRtl, inputTimers>>
    /\ IF currentBlock = NoBlock \/ ~collapsed \/ currentInput = 0 \/ ~atStart
       THEN UNCHANGED <<regVars, merging>>
       ELSE IF currentInput # 1
       THEN /\ setToInput(currentInput - 1, "end")
            /\ UNCHANGED <<blocks, selected, nextId, content, tool, merging>>
       ELSE IF previousBlock = NoBlock
       THEN UNCHANGED <<regVars, merging>>
       ELSE IF isEmpty(previousBlock)
       THEN removeOther(previousBlock)
       ELSE IF isEmpty(currentBlock)
       THEN removeCurrent(currentAfterRemove(currentBlock), "end")
       ELSE IF areBlocksMergeable(previousBlock, currentBlock)
       THEN mergeBlocks(previousBlock, currentBlock)
       ELSE /\ setToBlock(previousBlock, "end")
            /\ UNCHANGED <<blocks, selected, nextId, content, tool, merging>>

\* Variant of delete without the step to the block's next input
delete_noNextInput(collapsed, atEnd) ==
    /\ UNCHANGED <<cbsVars, keyFrame, isRtl, inputTimers>>
    /\ fault' = (fault \/ (collapsed /\ currentBlock = NoBlock))
    /\ IF ~collapsed \/ currentBlock = NoBlock \/ ~atEnd
       THEN UNCHANGED <<regVars, merging>>
       ELSE IF nextBlock = NoBlock
       THEN UNCHANGED <<regVars, merging>>
       ELSE IF isEmpty(nextBlock)
       THEN removeOther(nextBlock)
       ELSE IF isEmpty(currentBlock)
       THEN removeCurrent(nextBlock, "start")
       ELSE IF areBlocksMergeable(currentBlock, nextBlock)
       THEN mergeBlocks(currentBlock, nextBlock)
       ELSE /\ setToBlock(nextBlock, "start")
            /\ UNCHANGED <<blocks, selected, nextId, content, tool, merging>>

\* delete(event): whether it reaches event.preventDefault()
deletePrevents(collapsed, atEnd) == collapsed /\ currentBlock # NoBlock /\ atEnd

\* delete(event). atEnd: isCaretAtEndOfInput(currentBlock.currentInput);
\* reading currentInput of an unresolved current block throws.
delete(collapsed, atEnd) ==
    /\ UNCHANGED <<cbsVars, keyFrame, isRtl, inputTimers>>
    /\ fault' = (fault \/ (collapsed /\ currentBlock = NoBlock))
    /\ IF ~collapsed \/ currentBlock = NoBlock \/ ~atEnd
       THEN UNCHANGED <<regVars, merging>>
       ELSE IF currentInput # numInputs(currentBlock)
       THEN /\ setToInput(currentInput + 1, "start")
            /\ UNCHANGED <<blocks, selected, nextId, content, tool, merging>>
       ELSE IF nextBlock = NoBlock
       THEN UNCHANGED <<regVars, merging>>
       ELSE IF isEmpty(nextBlock)
       THEN removeOther(nextBlock)
       ELSE IF isEmpty(currentBlock)
       THEN removeCurrent(nextBlock, "start")
       ELSE IF areBlocksMergeable(currentBlock, nextBlock)
       THEN mergeBlocks(currentBlock, nextBlock)
       ELSE /\ setToBlock(nextBlock, "start")
            /\ UNCHANGED <<blocks, selected, nextId, content, tool, merging>>

\* BlockManager.split() with b the current block: the text after the caret
\* (from piece at + 1 on) moves to a new block of the default tool right after b.
split(b, at) ==
    /\ blocks' = insertDefaultBlockAtIndex(blocks, indexOf(blocks, b) + 1, nextId)
    /\ content' = withContent(withContent(content, b, SubSeq(contentOf(b), 1, at)),
                              nextId,
                              SubSeq(contentOf(b), at + 1, Len(contentOf(b))))
    /\ nextId' = nextId + 1

\* enter(event), run on the focus h that beforeKeydownProcessing has left.
\* event.owned: UI.someToolbarOpened && UI.someFlipperButtonFocused;
\* event.ios: _.isIosDevice; event.atStart, event.atEnd: the caret tests on
\* the current input; event.at: where the caret cuts the text.
enter(h, event) ==
    LET cb == h.currentBlock
        index == indexOf(blocks, cb)
        soft == event.shiftKey /\ ~event.ios
        passes == cb # NoBlock /\ ~isLineBreaksEnabled(cb) /\ ~event.owned /\ ~soft
    IN
    /\ lastOp' = [op |-> "enter", key |-> "ENTER", shiftKey |-> event.shiftKey,
                  modifier |-> event.command \/ event.altKey,
                  panel |-> event.toolboxOpened \/ event.settingsOpened
                               \/ event.inlineOpened,
                  printable |-> TRUE, toolbarClosed |-> h.toolbarClosed,
                  focus |-> cb, passes |-> passes, atStart |-> event.atStart,
                  atEnd |-> event.atEnd, prevented |-> passes]
    /\ IF ~passes
       THEN /\ currentBlock' = cb
            /\ currentInput' = h.currentInput
            /\ caret' = h.caret
            /\ UNCHANGED <<blocks, nextId, content, tool>>
       ELSE IF h.currentInput # 0 /\ event.atStart /\ ~hasMedia(cb)
       THEN /\ blocks' = insertDefaultBlockAtIndex(blocks, index, nextId)
            /\ nextId' = nextId + 1
            /\ currentBlock' = cb
            /\ currentInput' = h.currentInput
            /\ caret' = [block |-> cb, pos |-> "default"]
            /\ UNCHANGED <<content, tool>>
       ELSE IF h.currentInput # 0 /\ event.atEnd
       THEN /\ blocks' = insertDefaultBlockAtIndex(blocks, index + 1, nextId)
            /\ nextId' = nextId + 1
            /\ setToBlock(nextId, "default")
            /\ UNCHANGED <<content, tool>>
       ELSE /\ split(cb, event.at)
            /\ setToBlock(nextId, "default")
            /\ UNCHANGED tool

\* Caret.navigateNext() / Caret.navigatePrevious(): to the adjacent input of
\* the block, else to the adjacent block, when the caret is at the matching
\* end of its input. canNavigate: one of the two exists and the caret allows it.
canNavigateNext(atEnd) ==
    /\ currentBlock # NoBlock /\ atEnd
    /\ currentInput < numInputs(currentBlock) \/ nextBlock # NoBlock

navigateNext ==
    IF currentInput < numInputs(currentBlock)
    THEN setToInput(currentInput + 1, "start")
    ELSE setToBlock(nextBlock, "start")

canNavigatePrevious(atStart) ==
    /\ currentBlock # NoBlock /\ atStart
    /\ currentInput > 1 \/ previousBlock # NoBlock

navigatePrevious ==
    IF currentInput > 1
    THEN setToInput(currentInput - 1, "end")
    ELSE setToBlock(previousBlock, "end")

\* The reason a keydown of key gives to clear()
keyReason(key) == [keyboard |-> TRUE, key |-> key]

\* The end of both arrow handlers: the caret could not be moved, the block
\* selection is cleared (BlockSelection.clearSelection(event)).
arrowClears(key) ==
    /\ clearSelection(keyReason(key))
    /\ clear
    /\ UNCHANGED <<blocks, nextId, content, tool, firstSelectedBlockIndex,
                   endSelectedBlockIndex, listening, fault>>

\* Variant of arrowRightAndDown that hands Shift+ArrowRight to the extension too
arrowRightAndDown_anyKey(key, shiftKey, someToolbarOpened, atStart, atEnd) ==
    LET caretAtEnd == currentBlock # NoBlock /\ currentInput # 0 /\ atEnd
        shouldEnableCBS == caretAtEnd \/ anyBlockSelected
        forward == key = "DOWN" \/ (key = "RIGHT" /\ ~isRtl)
        isNavigated == IF forward THEN canNavigateNext(atEnd)
                       ELSE canNavigatePrevious(atStart)
    IN
    /\ UNCHANGED <<isRtl, merging>>
    /\ IF someToolbarOpened /\ ~shiftKey
       THEN /\ lastOp' = [op |-> "arrow", key |-> key, shiftKey |-> shiftKey,
                          deferred |-> TRUE, edge |-> atEnd, cleared |-> FALSE,
                          prevented |-> FALSE,
                          navEdge |-> IF forward THEN atEnd ELSE atStart]
            /\ UNCHANGED <<regVars, cbsVars, fault, inputTimers>>
       ELSE IF shiftKey /\ shouldEnableCBS
       THEN /\ lastOp' = [op |-> "toggleBlockSelectedState", next |-> TRUE,
                          stepped |-> toggleSteps(TRUE), key |-> key]
            /\ toggleBlockSelectedState(TRUE)
            /\ UNCHANGED inputTimers
       ELSE IF isNavigated
       THEN /\ lastOp' = [op |-> "arrow", key |-> key, shiftKey |-> shiftKey,
                          deferred |-> FALSE, edge |-> atEnd, cleared |-> FALSE,
                          prevented |-> TRUE,
                          navEdge |-> IF forward THEN atEnd ELSE atStart]
            /\ IF forward THEN navigateNext ELSE navigatePrevious
            /\ UNCHANGED <<blocks, selected, nextId, content, tool, cbsVars, fault,
                           inputTimers>>
       ELSE /\ lastOp' = [op |-> "arrow", key |-> key, shiftKey |-> shiftKey,
                          deferred |-> FALSE, edge |-> atEnd, cleared |-> TRUE,
                          prevented |-> FALSE,
                          navEdge |-> IF forward THEN atEnd ELSE atStart,
                          started |-> isCrossBlockSelectionStarted,
                          inRegistry |-> {firstSelectedBlock, lastSelectedBlock} \subseteq BlockIds]
            /\ inputTimers' = inputTimers + 1
            /\ arrowClears(key)

\* Variant of arrowRightAndDown that clears the block selection only when
\* the extension is under way
arrowRightAndDown_keepsSelection(key, shiftKey, someToolbarOpened, atStart, atEnd) ==
    LET caretAtEnd == currentBlock # NoBlock /\ currentInput # 0 /\ atEnd
        shouldEnableCBS == caretAtEnd \/ anyBlockSelected
        forward == key = "DOWN" \/ (key = "RIGHT" /\ ~isRtl)
        isNavigated == IF forward THEN canNavigateNext(atEnd)
                       ELSE canNavigatePrevious(atStart)
    IN
    /\ UNCHANGED <<isRtl, merging>>
    /\ IF someToolbarOpened /\ ~shiftKey
       THEN /\ lastOp' = [op |-> "arrow", key |-> key, shiftKey |-> shiftKey,
                          deferred |-> TRUE, edge |-> atEnd, cleared |-> FALSE,
                          prevented |-> FALSE,
                          navEdge |-> IF forward THEN atEnd ELSE atStart]
            /\ UNCHANGED <<regVars, cbsVars, fault, inputTimers>>
       ELSE IF shiftKey /\ key = "DOWN" /\ shouldEnableCBS
       THEN /\ lastOp' = [op |-> "toggleBlockSelectedState", next |-> TRUE,
                          stepped |-> toggleSteps(TRUE), key |-> key]
            /\ toggleBlockSelectedState(TRUE)
            /\ UNCHANGED inputTimers
       ELSE IF isNavigated
       THEN /\ lastOp' = [op |-> "arrow", key |-> key, shiftKey |-> shiftKey,
                          deferred |-> FALSE, edge |-> atEnd, cleared |-> FALSE,
                          prevented |-> TRUE,
                          navEdge |-> IF forward THEN atEnd ELSE atStart]
            /\ IF forward THEN navigateNext ELSE navigatePrevious
            /\ UNCHANGED <<blocks, selected, nextId, content, tool, cbsVars, fault,
                           inputTimers>>
       ELSE /\ lastOp' = [op |-> "arrow", key |-> key, shiftKey |-> shiftKey,
                          deferred |-> FALSE, edge |-> atEnd, cleared |-> TRUE,
                          prevented |-> FALSE,
                          navEdge |-> IF forward THEN atEnd ELSE atStart,
                          started |-> isCrossBlockSelectionStarted,
                          inRegistry |-> {firstSelectedBlock, lastSelectedBlock} \subseteq BlockIds]
            /\ inputTimers' = inputTimers + 1
            /\ IF isCrossBlockSelectionStarted
               THEN arrowClears(key)
               ELSE UNCHANGED <<regVars, cbsVars, fault>>

\* arrowRightAndDown(event). In a right-to-left editor ArrowRight moves backward.
arrowRightAndDown(key, shiftKey, someToolbarOpened, atStart, atEnd) ==
    LET caretAtEnd == currentBlock # NoBlock /\ currentInput # 0 /\ atEnd
        shouldEnableCBS == caretAtEnd \/ anyBlockSelected
        forward == key = "DOWN" \/ (key = "RIGHT" /\ ~isRtl)
        isNavigated == IF forward THEN canNavigateNext(atEnd)
                       ELSE canNavigatePrevious(atStart)
    IN
    /\ UNCHANGED <<isRtl, merging>>
    /\ IF someToolbarOpened /\ ~shiftKey
       THEN /\ lastOp' = [op |-> "arrow", key |-> key, shiftKey |-> shiftKey,
                          deferred |-> TRUE, edge |-> atEnd, cleared |-> FALSE,
                          prevented |-> FALSE,
                          navEdge |-> IF forward THEN atEnd ELSE atStart]
            /\ UNCHANGED <<regVars, cbsVars, fault, inputTimers>>
       ELSE IF shiftKey /\ key = "DOWN" /\ shouldEnableCBS
       THEN /\ lastOp' = [op |-> "toggleBlockSelectedState", next |-> TRUE,
                          stepped |-> toggleSteps(TRUE), key |-> key]
            /\ toggleBlockSelectedState(TRUE)
            /\ UNCHANGED inputTimers
       ELSE IF isNavigated
       THEN /\ lastOp' = [op |-> "arrow", key |-> key, shiftKey |-> shiftKey,
                          deferred |-> FALSE, edge |-> atEnd, cleared |-> FALSE,
                          prevented |-> TRUE,
                          navEdge |-> IF forward THEN atEnd ELSE atStart]
            /\ IF forward THEN navigateNext ELSE navigatePrevious
            /\ UNCHANGED <<blocks, selected, nextId, content, tool, cbsVars, fault,
                           inputTimers>>
       ELSE /\ lastOp' = [op |-> "arrow", key |-> key, shiftKey |-> shiftKey,
                          deferred |-> FALSE, edge |-> atEnd, cleared |-> TRUE,
                          prevented |-> FALSE,
                          navEdge |-> IF forward THEN atEnd ELSE atStart,
                          started |-> isCrossBlockSelectionStarted,
                          inRegistry |-> {firstSelectedBlock, lastSelectedBlock} \subseteq BlockIds]
            /\ inputTimers' = inputTimers + 1
            /\ arrowClears(key)

\* arrowLeftAndUp(event). In a right-to-left editor ArrowLeft moves forward.
arrowLeftAndUp(key, shiftKey, someToolbarOpened, atStart, atEnd) ==
    LET caretAtStart == currentBlock # NoBlock /\ currentInput # 0 /\ atStart
        shouldEnableCBS == caretAtStart \/ anyBlockSelected
        backward == key = "UP" \/ (key = "LEFT" /\ ~isRtl)
        isNavigated == IF backward THEN canNavigatePrevious(atStart)
                       ELSE canNavigateNext(atEnd)
    IN
    /\ UNCHANGED <<isRtl, merging>>
    /\ IF someToolbarOpened /\ ~shiftKey
       THEN /\ lastOp' = [op |-> "arrow", key |-> key, shiftKey |-> shiftKey,
                          deferred |-> TRUE, edge |-> atStart, cleared |-> FALSE,
                          prevented |-> FALSE,
                          navEdge |-> IF backward THEN atStart ELSE atEnd]
            /\ UNCHANGED <<regVars, cbsVars, fault, inputTimers>>
       ELSE IF shiftKey /\ key = "UP" /\ shouldEnableCBS
       THEN /\ lastOp' = [op |-> "toggleBlockSelectedState", next |-> FALSE,
                          stepped |-> toggleSteps(FALSE), key |-> key]
            /\ toggleBlockSelectedState(FALSE)
            /\ UNCHANGED inputTimers
       ELSE IF isNavigated
       THEN /\ lastOp' = [op |-> "arrow", key |-> key, shiftKey |-> shiftKey,
                          deferred |-> FALSE, edge |-> atStart, cleared |-> FALSE,
                          prevented |-> TRUE,
                          navEdge |-> IF backward THEN atStart ELSE atEnd]
            /\ IF backward THEN navigatePrevious ELSE navigateNext
            /\ UNCHANGED <<blocks, selected, nextId, content, tool, cbsVars, fault,
                           inputTimers>>
       ELSE /\ lastOp' = [op |-> "arrow", key |-> key, shiftKey |-> shiftKey,
                          deferred |-> FALSE, edge |-> atStart, cleared |-> TRUE,
                          prevented |-> FALSE,
                          navEdge |-> IF backward THEN atStart ELSE atEnd,
                          started |-> isCrossBlockSelectionStarted,
                          inRegistry |-> {firstSelectedBlock, lastSelectedBlock} \subseteq BlockIds]
            /\ inputTimers' = inputTimers + 1
            /\ arrowClears(key)

\* The callback of _.delay(..., 20) armed by an arrow key that did not move the
\* caret: when a block is current, Block.updateCurrentInput() makes the input
\* that holds the native caret the current input. input: its index, 0 when the
\* native caret is in no input of the block.
updateCurrentInput(input) ==
    /\ inputTimers > 0
    /\ inputTimers' = inputTimers - 1
    /\ currentInput' = IF currentBlock # NoBlock /\ input # 0 THEN input
                       ELSE currentInput
    /\ lastOp' = [op |-> "delay", input |-> input]
    /\ UNCHANGED <<blocks, selected, currentBlock, caret, nextId, content, tool,
                   cbsVars, fault, isRtl, merging>>

\* Variant of needToolbarClosing that does not look at the Shift key
needToolbarClosing_ignoresShift(key, shiftKey, toolboxOpened, settingsOpened, inlineOpened) ==
    ~(\/ key = "TAB"
      \/ key = "ENTER" /\ toolboxOpened
      \/ key = "ENTER" /\ settingsOpened
      \/ key = "ENTER" /\ inlineOpened)

\* needToolbarClosing(event)
needToolbarClosing(key, shiftKey, toolboxOpened, settingsOpened, inlineOpened) ==
    ~(\/ shiftKey
      \/ key = "TAB"
      \/ key = "ENTER" /\ toolboxOpened
      \/ key = "ENTER" /\ settingsOpened
      \/ key = "ENTER" /\ inlineOpened)

\* tabPressed(event): with the inline toolbar closed the caret goes to the
\* adjacent input or block, wherever it stands in its input
tabPressed(shiftKey, inlineOpened) ==
    IF inlineOpened \/ currentBlock = NoBlock \/ currentInput = 0
    THEN UNCHANGED regVars
    ELSE IF shiftKey
    THEN IF canNavigatePrevious(TRUE)
         THEN /\ navigatePrevious
              /\ UNCHANGED <<blocks, selected, nextId, content, tool>>
         ELSE UNCHANGED regVars
    ELSE IF canNavigateNext(TRUE)
         THEN /\ navigateNext
              /\ UNCHANGED <<blocks, selected, nextId, content, tool>>
         ELSE UNCHANGED regVars

\* _.isPrintableKey(event.keyCode): Enter, '/' and the character keys are
\* printable; Tab, Backspace, Delete and the arrows are not. printable: the
\* answer for a key that has no case of its own in the dispatch.
isPrintableKey(key, printable) ==
    key \in {"ENTER", "SLASH"} \/ (key = "CHAR" /\ printable)

\* beforeKeydownProcessing(event): what it has done when it returns. For a
\* printable key that needs the toolbar closed, Toolbar.close(); when the key
\* is no shortcut, BlockSelection.clearSelection(event) as well: clear(event)
\* puts the caret at the end of the lower anchor block when blocks are
\* selected and both anchors are in the registry (no printable key is UP or
\* LEFT), every block is deselected and the anchors are reset.
beforeKeydownProcessing(event) ==
    LET typed == /\ needToolbarClosing(event.key, event.shiftKey, event.toolboxOpened,
                                       event.settingsOpened, event.inlineOpened)
                 /\ isPrintableKey(event.key, event.printable)
        isShortcut == event.command \/ event.altKey \/ event.shiftKey
        cleared == typed /\ ~isShortcut
        fIndex == indexOf(blocks, firstSelectedBlock)
        lIndex == indexOf(blocks, lastSelectedBlock)
        placed == cleared /\ anyBlockSelected /\ fIndex > -1 /\ lIndex > -1
        lower == blockAt(blocks, Max(fIndex, lIndex))
    IN  [toolbarClosed |-> typed, cleared |-> cleared, placed |-> placed,
         currentBlock |-> IF placed THEN lower ELSE currentBlock,
         currentInput |-> IF placed THEN numInputs(lower) ELSE currentInput,
         caret |-> IF placed THEN [block |-> lower, pos |-> "end"] ELSE caret]

\* slashPressed(event), run on the focus h the hook has left. event.inside:
\* the editor's wrapper contains event.target. currentBlock.isEmpty is read
\* with no test for an undefined current block. In an empty block the '/' is
\* inserted at the caret (and the toolbox opened).
slashPressed(h, event) ==
    /\ currentBlock' = h.currentBlock
    /\ currentInput' = h.currentInput
    /\ caret' = h.caret
    /\ UNCHANGED <<blocks, nextId, tool>>
    /\ IF ~event.inside
       THEN UNCHANGED <<content, fault>>
       ELSE IF h.currentBlock = NoBlock
       THEN /\ fault' = TRUE
            /\ UNCHANGED content
       ELSE IF ~isEmpty(h.currentBlock)
       THEN UNCHANGED <<content, fault>>
       ELSE /\ content' = withContent(content, h.currentBlock, <<SlashText>>)
            /\ UNCHANGED fault

\* keydown(event) for Enter, Tab, '/' and the keys with no case of their own
\* in the dispatch: beforeKeydownProcessing, then enter, tabPressed or
\* slashPressed (event.key === '/' with neither Ctrl nor Meta; with one of
\* them commandSlashPressed only opens the block settings). event.command:
\* event.ctrlKey || event.metaKey.
keydown(event) ==
    LET h == beforeKeydownProcessing(event) IN
    /\ selected' = IF h.cleared THEN {} ELSE selected
    /\ firstSelectedBlock' = IF h.cleared THEN NoBlock ELSE firstSelectedBlock
    /\ lastSelectedBlock' = IF h.cleared THEN NoBlock ELSE lastSelectedBlock
    /\ UNCHANGED <<firstSelectedBlockIndex, endSelectedBlockIndex, listening,
                   keyFrame, keyVars>>
    /\ IF event.key = "ENTER"
       THEN /\ enter(h, event)
            /\ UNCHANGED fault
       ELSE /\ lastOp' = [op |-> "keydown", key |-> event.key,
                          shiftKey |-> event.shiftKey,
                          modifier |-> event.command \/ event.altKey,
                          panel |-> event.toolboxOpened \/ event.settingsOpened
                                       \/ event.inlineOpened,
                          printable |-> isPrintableKey(event.key, event.printable),
                          toolbarClosed |-> h.toolbarClosed]
            /\ IF event.key = "TAB"
               THEN /\ tabPressed(event.shiftKey, event.inlineOpened)
                    /\ UNCHANGED fault
               ELSE IF event.key = "SLASH" /\ ~event.command
               THEN slashPressed(h, event)
               ELSE /\ currentBlock' = h.currentBlock
                    /\ currentInput' = h.currentInput
                    /\ caret' = h.caret
                    /\ UNCHANGED <<blocks, nextId, content, tool, fault>>

\* ------------------------------------------------- cut specification, steps
\* Shift+ArrowDown or Shift+ArrowUp with no toolbar open, the caret at both
\* ends of the focused input (the blocks hold no text).
CutShiftArrow ==
    \E next \in BOOLEAN :
        /\ NoReactionPending
        /\ IF next THEN arrowRightAndDown("DOWN", TRUE, FALSE, TRUE, TRUE)
           ELSE arrowLeftAndUp("UP", TRUE, FALSE, TRUE, TRUE)
        /\ cuts' = disturbed
        /\ UNCHANGED <<pointerAt, rectVars, clipboard, cutsIssued>>

\* A mousedown outside the editing surface: it clears the block selection.
CutMouseDown ==
    /\ NoReactionPending
    /\ enableCrossBlockSelection(0, FALSE, NoBlock)
    /\ pointerAt' = NoBlock
    /\ cuts' = disturbed
    /\ UNCHANGED <<rectVars, clipboard, cutsIssued, keyVars>>

CutCommandX ==
    /\ NoReactionPending
    /\ cutsIssued < MaxCuts
    /\ handleCommandX
    /\ UNCHANGED <<pointerAt, rectVars, keyVars>>

CutCommandC ==
    /\ NoReactionPending
    /\ cutsIssued < MaxCuts
    /\ handleCommandC
    /\ UNCHANGED <<pointerAt, rectVars, keyVars>>

CutCopySettles ==
    \E i \in 1..Len(cuts), ok \in BOOLEAN :
        /\ NoReactionPending
        /\ copySelectedBlocksSettles(i, ok)
        /\ UNCHANGED <<pointerAt, rectVars, keyVars>>

CutReaction ==
    \E i \in 1..Len(cuts), at \in 0..Len(blocks) :
        /\ (selectionPositionIndex # NotFound \/ ~thenRuns(cuts[i].state)) => at = 0
        /\ promiseReaction(i, at)
        /\ UNCHANGED <<pointerAt, rectVars, keyVars>>

NextCut ==
    \/ CutShiftArrow \/ CutMouseDown \/ CutCommandX \/ CutCommandC
    \/ CutCopySettles \/ CutReaction

SpecCut == InitCutSpec /\ [][NextCut]_vars

\* ---------------------------------------------------- keyboard specification
\* A document of KeyBlocks blocks, each holding one piece of text, its tools
\* a stretch of ToolPattern; any block, or none, holds the focus.
InitKeySpec ==
    /\ blocks = [i \in 1..KeyBlocks |-> i]
    /\ selected = {}
    /\ caret = [block |-> NoBlock, pos |-> "none"]
    /\ nextId = KeyBlocks + 1
    /\ content = [i \in 1..KeyBlocks |-> <<i>>]
    /\ \E offset \in 0..(Len(ToolPattern) - 1) :
          tool = [i \in 1..KeyBlocks |-> ToolPattern[((i + offset - 1) % Len(ToolPattern)) + 1]]
    /\ currentBlock \in (1..KeyBlocks) \cup {NoBlock}
    /\ currentInput = IF currentBlock = NoBlock THEN 0 ELSE 1
    /\ isRtl = FALSE
    /\ InitCBS /\ InitRect /\ InitCut /\ InitKeys /\ InitObs

\* What the caret tests can answer for the focused input: an input is empty
\* (caret at its start and at its end) only if the block's text is empty or
\* the block has another input to hold it, and every input of a block
\* without text is empty.
CaretAt(atStart, atEnd) ==
    IF currentBlock = NoBlock THEN ~atStart /\ ~atEnd
    ELSE /\ (atStart /\ atEnd) => (contentOf(currentBlock) = <<>> \/ numInputs(currentBlock) > 1)
         /\ contentOf(currentBlock) = <<>> => (atStart /\ atEnd)

\* Backspace, Delete and the arrow keys are not printable: for them
\* beforeKeydownProcessing returns with nothing done, and the keydown is the
\* handler of the key.
KeyBackspace ==
    \E collapsed \in BOOLEAN, atStart \in BOOLEAN, atEnd \in BOOLEAN :
        /\ merging = NoMerge
        /\ CaretAt(atStart, atEnd)
        /\ backspace(collapsed, atStart)
        /\ lastOp' = [op |-> "backspace", collapsed |-> collapsed,
                      atStart |-> atStart, atEnd |-> atEnd,
                      removed |-> Len(blocks') < Len(blocks)]

KeyDelete ==
    \E collapsed \in BOOLEAN, atStart \in BOOLEAN, atEnd \in BOOLEAN :
        /\ merging = NoMerge
        /\ CaretAt(atStart, atEnd)
        /\ delete(collapsed, atEnd)
        /\ lastOp' = [op |-> "delete", collapsed |-> collapsed,
                      atStart |-> atStart, atEnd |-> atEnd,
                      removed |-> Len(blocks') < Len(blocks),
                      prevented |-> deletePrevents(collapsed, atEnd)]

\* An Enter keydown: plain, with Shift (on an iOS device or not) or with Ctrl
\* or Meta. With a plain Enter one panel may be open, a button of its flipper
\* focused or not. The caret tests are those of the input enter() finds
\* current: an input is empty only if the block's text is empty or the block
\* has another input to hold it; a caret the hook has just placed is at the
\* end of the block; in a block with one input the caret cuts the text at its
\* start exactly when it is at the start of the input, and at its end likewise.
KeyEnter ==
    \E mods \in {"none", "shift", "command"}, ios \in BOOLEAN, owned \in BOOLEAN,
       panel \in {"none", "toolbox", "settings", "inline"},
       atStart \in BOOLEAN, atEnd \in BOOLEAN :
        LET press(at) == [key |-> "ENTER", shiftKey |-> mods = "shift",
                          command |-> mods = "command", altKey |-> FALSE,
                          toolboxOpened |-> panel = "toolbox",
                          settingsOpened |-> panel = "settings",
                          inlineOpened |-> panel = "inline", printable |-> TRUE,
                          inside |-> TRUE, owned |-> owned, ios |-> ios,
                          atStart |-> atStart, atEnd |-> atEnd, at |-> at]
            h == beforeKeydownProcessing(press(0))
            cb == h.currentBlock
        IN  \E at \in 0..Len(contentOf(cb)) :
                /\ merging = NoMerge
                /\ nextId <= KeyBlocks + MaxEnters
                /\ ios => mods = "shift"
                /\ panel # "none" => mods = "none"
                /\ owned => panel # "none"
                /\ IF cb = NoBlock THEN ~atStart /\ ~atEnd
                   ELSE /\ (atStart /\ atEnd)
                              => (contentOf(cb) = <<>> \/ numInputs(cb) > 1)
                        /\ contentOf(cb) = <<>> => (atStart /\ atEnd)
                /\ h.placed => (atEnd /\ at = Len(contentOf(cb)))
                /\ (cb # NoBlock /\ numInputs(cb) = 1)
                      => /\ atStart <=> at = 0
                         /\ atEnd <=> at = Len(contentOf(cb))
                /\ keydown(press(at))

KeyArrowDown ==
    \E key \in {"DOWN", "RIGHT"}, shiftKey \in BOOLEAN, someToolbarOpened \in BOOLEAN,
       atStart \in BOOLEAN, atEnd \in BOOLEAN :
        /\ merging = NoMerge
        /\ CaretAt(atStart, atEnd)
        /\ arrowRightAndDown(key, shiftKey, someToolbarOpened, atStart, atEnd)
        /\ inputTimers' <= MaxDelays
        /\ UNCHANGED keyFrame

KeyArrowUp ==
    \E key \in {"UP", "LEFT"}, shiftKey \in BOOLEAN, someToolbarOpened \in BOOLEAN,
       atStart \in BOOLEAN, atEnd \in BOOLEAN :
        /\ merging = NoMerge
        /\ CaretAt(atStart, atEnd)
        /\ arrowLeftAndUp(key, shiftKey, someToolbarOpened, atStart, atEnd)
        /\ inputTimers' <= MaxDelays
        /\ UNCHANGED keyFrame

\* Shift+ArrowDown or Shift+ArrowUp with no toolbar open, pressed where the
\* handler reaches the keyboard extension: the caret at the matching edge of
\* the current input, or a block selected.
KeyShiftArrow ==
    \E next \in BOOLEAN, atStart \in BOOLEAN, atEnd \in BOOLEAN :
        /\ merging = NoMerge
        /\ CaretAt(atStart, atEnd)
        /\ \/ anyBlockSelected
           \/ currentBlock # NoBlock /\ currentInput # 0 /\ (IF next THEN atEnd ELSE atStart)
        /\ IF next THEN arrowRightAndDown("DOWN", TRUE, FALSE, atStart, atEnd)
           ELSE arrowLeftAndUp("UP", TRUE, FALSE, atStart, atEnd)
        /\ UNCHANGED keyFrame

\* The BlockManager.mergeBlocks promise a Backspace or Delete left pending is
\* settled, in the microtasks that follow the handler: no other event comes
\* before it.
KeyMergeSettles == mergeBlocksSettles /\ UNCHANGED keyFrame

\* A delayed updateCurrentInput callback runs. The native caret is in any
\* input of the current block, or in none.
KeyDelayFires ==
    \E input \in 0..2 :
        /\ merging = NoMerge
        /\ input <= (IF currentBlock = NoBlock THEN 0 ELSE numInputs(currentBlock))
        /\ updateCurrentInput(input)
        /\ UNCHANGED keyFrame

\* A mousedown outside the editing surface
KeyMouseDown ==
    /\ merging = NoMerge
    /\ enableCrossBlockSelection(MAIN_MOUSE_BUTTON, FALSE, NoBlock)
    /\ pointerAt' = NoBlock
    /\ UNCHANGED <<rectVars, cutVars, keyVars>>

\* A keydown of Tab, of '/', or of a character or another key without a case
\* in the dispatch (printable or not), with one modifier at most. Tab is
\* pressed alone or with Shift, the inline toolbar open or not; the keydown
\* comes from inside the editor, a plain '/' from outside as well.
KeyDownOther ==
    \E key \in {"CHAR", "TAB", "SLASH"}, mods \in {"none", "shift", "command", "alt"},
       inlineOpened \in BOOLEAN, printable \in BOOLEAN, inside \in BOOLEAN :
        /\ merging = NoMerge
        /\ printable <=> isPrintableKey(key, printable)
        /\ key = "TAB" => mods \in {"none", "shift"}
        /\ inlineOpened => key = "TAB"
        /\ ~inside => key = "SLASH" /\ mods = "none"
        /\ keydown([key |-> key, shiftKey |-> mods = "shift",
                    command |-> mods = "command", altKey |-> mods = "alt",
                    toolboxOpened |-> FALSE, settingsOpened |-> FALSE,
                    inlineOpened |-> inlineOpened, printable |-> printable,
                    inside |-> inside, owned |-> FALSE, ios |-> FALSE,
                    atStart |-> FALSE, atEnd |-> FALSE, at |-> 0])

\* A document of HookBlocks blocks of the default tool, each holding one
\* piece of text but the first, which holds none; any block, or none, holds
\* the focus.
InitHookSpec ==
    /\ blocks = [i \in 1..HookBlocks |-> i]
    /\ selected = {}
    /\ caret = [block |-> NoBlock, pos |-> "none"]
    /\ nextId = KeyBlocks + MaxEnters
    /\ content = [i \in 2..HookBlocks |-> <<i>>]
    /\ tool = [i \in 1..HookBlocks |-> defaultTool]
    /\ currentBlock \in (1..HookBlocks) \cup {NoBlock}
    /\ currentInput = IF currentBlock = NoBlock THEN 0 ELSE 1
    /\ isRtl = FALSE
    /\ InitCBS /\ InitRect /\ InitCut /\ InitKeys /\ InitObs

NextHook == KeyShiftArrow \/ KeyDownOther \/ KeyEnter

SpecHook == InitHookSpec /\ [][NextHook]_vars

\* A document of LadderBlocks blocks, its tools a stretch of ToolPattern, any
\* of its blocks without text; any block, or none, holds the focus.
InitLadderSpec ==
    /\ blocks = [i \in 1..LadderBlocks |-> i]
    /\ selected = {}
    /\ caret = [block |-> NoBlock, pos |-> "none"]
    /\ nextId = LadderBlocks + 1
    /\ \E textless \in SUBSET (1..LadderBlocks) :
          content = [i \in (1..LadderBlocks) \ textless |-> <<i>>]
    /\ \E offset \in 0..(Len(ToolPattern) - 1) :
          tool = [i \in 1..LadderBlocks |-> ToolPattern[((i + offset - 1) % Len(ToolPattern)) + 1]]
    /\ currentBlock \in (1..LadderBlocks) \cup {NoBlock}
    /\ currentInput = IF currentBlock = NoBlock THEN 0 ELSE 1
    /\ isRtl = FALSE
    /\ InitCBS /\ InitRect /\ InitCut /\ InitKeys /\ InitObs

NextLadder == KeyBackspace \/ KeyDelete \/ KeyMergeSettles

SpecLadder == InitLadderSpec /\ [][NextLadder]_vars

NextEdit == KeyBackspace \/ KeyDelete \/ KeyEnter \/ KeyMergeSettles

SpecEdit == InitKeySpec /\ [][NextEdit]_vars

\* A document of KeyBlocks blocks, its tools ToolPattern from its start, the
\* first block without text and every other holding two pieces; any block, or
\* none, holds the focus. Shift+Arrow selects blocks, Enter is pressed on the
\* focused block or on the selection.
InitEnterSpec ==
    /\ blocks = [i \in 1..KeyBlocks |-> i]
    /\ selected = {}
    /\ caret = [block |-> NoBlock, pos |-> "none"]
    /\ nextId = KeyBlocks + 1
    /\ content = [i \in 2..KeyBlocks |-> <<i, i>>]
    /\ tool = [i \in 1..KeyBlocks |-> ToolPattern[((i - 1) % Len(ToolPattern)) + 1]]
    /\ currentBlock \in (1..KeyBlocks) \cup {NoBlock}
    /\ currentInput = IF currentBlock = NoBlock THEN 0 ELSE 1
    /\ isRtl = FALSE
    /\ InitCBS /\ InitRect /\ InitCut /\ InitKeys /\ InitObs

NextEnter == KeyEnter \/ KeyShiftArrow

SpecEnter == InitEnterSpec /\ [][NextEnter]_vars

\* A document of KeyBlocks blocks, each holding one piece of text, its tools
\* ToolPattern from its start; any block, or none, holds the focus; the editor
\* is left-to-right or right-to-left.
InitShiftSpec ==
    /\ blocks = [i \in 1..KeyBlocks |-> i]
    /\ selected = {}
    /\ caret = [block |-> NoBlock, pos |-> "none"]
    /\ nextId = KeyBlocks + 1
    /\ content = [i \in 1..KeyBlocks |-> <<i>>]
    /\ tool = [i \in 1..KeyBlocks |-> ToolPattern[((i - 1) % Len(ToolPattern)) + 1]]
    /\ currentBlock \in (1..KeyBlocks) \cup {NoBlock}
    /\ currentInput = IF currentBlock = NoBlock THEN 0 ELSE 1
    /\ isRtl \in BOOLEAN
    /\ InitCBS /\ InitRect /\ InitCut /\ InitKeys /\ InitObs

NextShift ==
    \/ KeyArrowDown \/ KeyArrowUp \/ KeyMouseDown \/ KeyDelete
    \/ KeyMergeSettles \/ KeyDelayFires

SpecShift == InitShiftSpec /\ [][NextShift]_vars

\* C12: Shift+ArrowDown pressed three times from block 0, focused with the
\* caret at the end of its input, nothing selected and no anchor set, leaves
\* exactly blocks 0, 1, 2 and 3 selected. Stated for every way the keyboard
\* extension gets from the anchor block 0 down to block 3 in a document no
\* block of which has been removed.
C12_ShiftDownThreeTimes ==
    (/\ lastOp.op = "toggleBlockSelectedState"
     /\ lastOp.next
     /\ ~fault
     /\ Len(blocks) = KeyBlocks
     /\ firstSelectedBlock # NoBlock
     /\ indexOf(blocks, firstSelectedBlock) = 0
     /\ indexOf(blocks, lastSelectedBlock) = 3)
    => SelectedIndices = 0..3

\* The third press has reached block 3.
C12_Witness ==
    /\ lastOp.op = "toggleBlockSelectedState"
    /\ lastOp.next
    /\ currentBlock = blockAt(blocks, 0)
    /\ firstSelectedBlock = currentBlock
    /\ indexOf(blocks, lastSelectedBlock) = 3
    /\ Len(blocks) = KeyBlocks

\* Backspace with a collapsed caret at the start of the empty first input of
\* a block that is not mergeable with the block before it
BackspaceInEmptyFirstInput ==
    /\ lastOp'.op = "backspace"
    /\ lastOp'.collapsed /\ lastOp'.atStart /\ lastOp'.atEnd
    /\ currentBlock # NoBlock
    /\ currentInput = 1
    /\ previousBlock # NoBlock
    /\ ~areBlocksMergeable(previousBlock, currentBlock)

CaretToEndOfPrevious ==
    /\ blocks' = blocks
    /\ currentBlock' = previousBlock
    /\ caret' = [block |-> previousBlock, pos |-> "end"]

\* C13 as stated: such a Backspace moves the caret to the end of the previous
\* block and removes neither block.
C13_BackspaceNavigates ==
    [][BackspaceInEmptyFirstInput => CaretToEndOfPrevious]_vars

\* C13, amended: it does so when neither the block nor the previous block is
\* empty (the empty first input belongs to a block with text in another
\* input, or with media).
C13_BackspaceNavigatesNonEmpty ==
    [][(BackspaceInEmptyFirstInput /\ ~isEmpty(currentBlock) /\ ~isEmpty(previousBlock))
       => CaretToEndOfPrevious]_vars

C13_Witness ==
    /\ lastOp.op = "backspace"
    /\ lastOp.collapsed /\ lastOp.atStart /\ lastOp.atEnd
    /\ ~lastOp.removed
    /\ caret = [block |-> currentBlock, pos |-> "end"]
    /\ nextBlock # NoBlock
    /\ numInputs(nextBlock) > 1
    /\ ~isEmpty(nextBlock) /\ ~isEmpty(currentBlock)
    /\ ~areBlocksMergeable(currentBlock, nextBlock)

\* Backspace with a collapsed caret at the start of the focused input while
\* the previous block is empty
BackspaceAfterEmptyBlock ==
    /\ lastOp'.op = "backspace"
    /\ lastOp'.collapsed /\ lastOp'.atStart
    /\ currentBlock # NoBlock
    /\ currentInput # 0
    /\ previousBlock # NoBlock
    /\ isEmpty(previousBlock)

OnlyPreviousRemoved ==
    /\ Len(blocks') = Len(blocks) - 1
    /\ indexOf(blocks', previousBlock) = NotFound
    /\ \A b \in BlockIds \ {previousBlock} :
          indexOf(blocks', b) # NotFound /\ contentOf(b)' = contentOf(b)
    /\ currentBlock' = currentBlock
    /\ currentInput' = currentInput
    /\ caret' = caret

\* C14 as stated: from the start of any input, Backspace removes an empty
\* previous block and leaves the current block, its content, its focused
\* input and the caret as they were.
C14_BackspaceRemovesEmptyPrevious ==
    [][BackspaceAfterEmptyBlock => OnlyPreviousRemoved]_vars

\* C14, amended: it does so from the start of the block's first input.
C14_BackspaceFromFirstInput ==
    [][(BackspaceAfterEmptyBlock /\ currentInput = 1) => OnlyPreviousRemoved]_vars

C14_Witness ==
    /\ lastOp.op = "backspace"
    /\ lastOp.collapsed /\ lastOp.atStart /\ lastOp.removed
    /\ blocks = [i \in 1..KeyBlocks |-> i]
    /\ \A i \in 1..KeyBlocks : contentOf(i) = <<i>>
    /\ currentBlock # NoBlock /\ currentInput = 1
    /\ currentBlockIndex > 0

\* the text block b holds in the content map c
textIn(c, b) == IF b \in DOMAIN c THEN c[b] ELSE <<>>

\* Delete with a collapsed caret at the end of the last input of the focused
\* block while the next block is mergeable with it
DeleteBeforeMergeable ==
    /\ lastOp'.op = "delete"
    /\ lastOp'.collapsed /\ lastOp'.atEnd
    /\ currentBlock # NoBlock
    /\ currentInput = numInputs(currentBlock)
    /\ nextBlock # NoBlock
    /\ areBlocksMergeable(currentBlock, nextBlock)

NextMergedIntoCurrent ==
    /\ Len(blocks') = Len(blocks) - 1
    /\ blocks' = SelectSeq(blocks, LAMBDA x : x # nextBlock)
    /\ textIn(content', currentBlock) = contentOf(currentBlock) \o contentOf(nextBlock)
    /\ currentBlock' = currentBlock

\* The handler has started the merge of the next block into the current one:
\* its promise is pending and no block has changed yet.
MergeOfNextStarted ==
    /\ merging' = [target |-> currentBlock, blockToMerge |-> nextBlock]
    /\ UNCHANGED <<blocks, content, currentBlock>>

\* The completion of a pending merge appends the text of the block to merge
\* to the target, removes that block and no other, and leaves the target
\* current.
MergeCompleted ==
    lastOp'.op = "mergeSettled"
    => /\ merging # NoMerge
       /\ Len(blocks') = Len(blocks) - 1
       /\ blocks' = SelectSeq(blocks, LAMBDA x : x # merging.blockToMerge)
       /\ textIn(content', merging.target)
             = contentOf(merging.target) \o contentOf(merging.blockToMerge)
       /\ currentBlock' = merging.target

\* A pending merge is completed before any other event.
MergeComesFirst == merging # NoMerge => lastOp'.op = "mergeSettled"

\* C15 as stated: such a Delete merges the next block's content into the
\* current block and removes the next block, so the count drops by one; the
\* merge is done in the step itself (a next block without text) or started
\* in it and completed before any other event.
C15_DeleteMerges ==
    [][/\ DeleteBeforeMergeable => (NextMergedIntoCurrent \/ MergeOfNextStarted)
       /\ MergeCompleted
       /\ MergeComesFirst]_vars

\* C15, amended: it does so when the current block is not empty.
C15_DeleteMergesNonEmpty ==
    [][/\ (DeleteBeforeMergeable /\ ~isEmpty(currentBlock))
          => (NextMergedIntoCurrent \/ MergeOfNextStarted)
       /\ MergeCompleted
       /\ MergeComesFirst]_vars

\* A merge started by Delete has been completed: the current block holds the
\* two pieces of text and the caret is at its end.
C15_Witness ==
    /\ lastOp.op = "mergeSettled"
    /\ lastOp.target = currentBlock
    /\ nextId = KeyBlocks + 1 /\ Len(blocks) = KeyBlocks - 1
    /\ toolOf(currentBlock) = defaultTool
    /\ Len(contentOf(currentBlock)) = 2
    /\ caret = [block |-> currentBlock, pos |-> "end"]

\* C16: while the current block is unresolved, a Backspace, Delete or Enter
\* keydown raises no fault and changes neither the block list, nor a selected
\* flag, nor the caret.
C16_UnresolvedBlockIsNoOp ==
    [][(currentBlock = NoBlock /\ lastOp'.op \in {"backspace", "delete", "enter"})
       => (fault' = fault /\ UNCHANGED <<blocks, selected, caret>>)]_vars

\* C17: the mouseup that ends a cross-block drag leaves both anchors,
\* isCrossBlockSelectionStarted and every selected flag as they were, and from
\* then until the next mousedown no pointer movement changes a selected flag
\* or an anchor.
C17_MouseUpKeepsSelection ==
    [][/\ lastOp'.op = "mouseup"
          => /\ UNCHANGED <<firstSelectedBlock, lastSelectedBlock, selected>>
             /\ isCrossBlockSelectionStarted' = isCrossBlockSelectionStarted
       /\ (lastOp.op \in {"mouseup", "mouseoverUnbound"} /\ lastOp'.op # "mousedown")
          => UNCHANGED <<firstSelectedBlock, lastSelectedBlock, selected>>]_vars

C17_Witness ==
    /\ lastOp.op = "mouseoverUnbound"
    /\ isCrossBlockSelectionStarted
    /\ Cardinality(selected) >= 2
    /\ pointerAt # NoBlock
    /\ pointerAt \notin selected

\* a step in which clear(reason) runs and nothing assigns the anchors after it
ClearRuns ==
    \/ lastOp'.op = "arrow" /\ lastOp'.cleared
    \/ lastOp'.op = "mousedown" /\ ~lastOp'.inRedactor

\* C18: clear(reason) resets both anchors, for a keyboard reason or none,
\* with or without selected blocks, with the anchors in the registry or not;
\* isCrossBlockSelectionStarted is false afterwards.
C18_ClearResetsAnchors ==
    [][ClearRuns => /\ firstSelectedBlock' = NoBlock
                    /\ lastSelectedBlock' = NoBlock
                    /\ ~isCrossBlockSelectionStarted']_vars

C18_Witness ==
    /\ lastOp.op = "arrow" /\ lastOp.cleared
    /\ lastOp.started /\ ~lastOp.inRegistry
    /\ firstSelectedBlock = NoBlock /\ lastSelectedBlock = NoBlock

\* toggleBlockSelectedState(next) runs while the block it steps from (the
\* last selected block, or the focused block when no anchor is set) is the
\* last block for next, the first block for previous
ToggleAtEdge ==
    LET from == IF lastSelectedBlock = NoBlock THEN currentBlock ELSE lastSelectedBlock
    IN  /\ lastOp'.op = "toggleBlockSelectedState"
        /\ from \in BlockIds
        /\ indexOf(blocks, from) = (IF lastOp'.next THEN Len(blocks) - 1 ELSE 0)

AnchorsSettled ==
    /\ lastSelectedBlock # NoBlock
    /\ firstSelectedBlock # lastSelectedBlock \/ firstSelectedBlock \in selected

\* C19 as stated: toggleBlockSelectedState towards a side with no adjacent
\* block changes no selected flag and no anchor.
C19_ToggleAtEdgeIsNoOp ==
    [][ToggleAtEdge => UNCHANGED <<selected, firstSelectedBlock, lastSelectedBlock>>]_vars

\* C19, amended: it changes nothing when the anchors are set and either
\* differ or name a block that is already selected; otherwise it makes the
\* focused block both anchors when none is set, and selects the block the two
\* anchors name.
C19_ToggleAtEdgeSettled ==
    [][ToggleAtEdge =>
          IF AnchorsSettled
          THEN UNCHANGED <<selected, firstSelectedBlock, lastSelectedBlock>>
          ELSE LET from == IF lastSelectedBlock = NoBlock THEN currentBlock
                           ELSE lastSelectedBlock
               IN  /\ firstSelectedBlock' = (IF lastSelectedBlock = NoBlock THEN from
                                             ELSE firstSelectedBlock)
                   /\ lastSelectedBlock' = from
                   /\ selected' = selected \cup {firstSelectedBlock'}]_vars

C19_Witness ==
    /\ lastOp.op = "toggleBlockSelectedState"
    /\ lastOp.next /\ ~lastOp.stepped
    /\ ~fault
    /\ indexOf(blocks, lastSelectedBlock) = Len(blocks) - 1
    /\ indexOf(blocks, firstSelectedBlock) = Len(blocks) - 3
    /\ Cardinality(selected) = 3

\* The block enter() finds focused: the block focused before the keydown,
\* or the lower anchor block when the keydown has cleared a block selection
EnterBlock == lastOp'.focus
EnterIndex == indexOf(blocks, EnterBlock)

\* An Enter keydown that passes the guards of enter, in a focused input
EnterPasses ==
    /\ lastOp'.op = "enter" /\ lastOp'.passes
    /\ EnterBlock = currentBlock => currentInput # 0

\* the block the step adds to the list
added == CHOOSE b \in {blocks'[k] : k \in 1..Len(blocks')} : b \notin BlockIds

OneBlockAdded ==
    /\ Len(blocks') = Len(blocks) + 1
    /\ added \notin BlockIds
    /\ SelectSeq(blocks', LAMBDA x : x # added) = blocks
    /\ (IF added \in DOMAIN tool' THEN tool'[added] ELSE defaultTool) = defaultTool
    /\ lastOp'.prevented

InsertedAbove ==
    /\ blockAt(blocks', EnterIndex) = added
    /\ content' = content
    /\ currentBlock' = EnterBlock
    /\ caret'.block = EnterBlock

InsertedBelow ==
    /\ blockAt(blocks', EnterIndex + 1) = added
    /\ content' = content
    /\ currentBlock' = added
    /\ caret'.block = added

SplitAtCaret ==
    /\ blockAt(blocks', EnterIndex + 1) = added
    /\ textIn(content', EnterBlock) \o textIn(content', added) = contentOf(EnterBlock)
    /\ \A b \in BlockIds \ {EnterBlock} : textIn(content', b) = contentOf(b)
    /\ currentBlock' = added
    /\ caret'.block = added

\* C20: an Enter that passes its guards adds exactly one block of the default
\* tool and prevents the default: above the focused block, which keeps the
\* caret, when the caret is at the start of the input and the block has no
\* media; else right below it, with the caret, when the caret is at the end of
\* the input; else by splitting the focused block at the caret, the second
\* part taking the caret. An empty block falls under the first rule. The
\* focused block is the one enter() finds focused: the block focused before
\* the keydown, unless blocks were selected and the pre-dispatch hook cleared
\* the selection (a plain Enter with no panel open), which focuses the lower
\* anchor block with the caret at its end.
C20_EnterAddsOneBlock ==
    [][/\ EnterPasses =>
          /\ OneBlockAdded
          /\ IF lastOp'.atStart /\ ~hasMedia(EnterBlock) THEN InsertedAbove
             ELSE IF lastOp'.atEnd THEN InsertedBelow
             ELSE SplitAtCaret
          /\ isEmpty(EnterBlock) => InsertedAbove
       /\ (lastOp'.op = "enter" /\ EnterBlock # currentBlock)
          => /\ anyBlockSelected /\ selected' = {}
             /\ ~lastOp'.shiftKey /\ ~lastOp'.modifier /\ ~lastOp'.panel
             /\ EnterBlock \in {firstSelectedBlock, lastSelectedBlock}
             /\ lastOp'.atEnd]_vars

\* A plain Enter on a selection of two blocks made from the upper one: the
\* selection is cleared and the new block stands right below the lower
\* anchor block, with the caret.
C20_Witness ==
    /\ lastOp.op = "enter" /\ lastOp.passes
    /\ lastOp.atEnd /\ ~lastOp.atStart
    /\ lastOp.focus = 2
    /\ blocks = <<1, 2, KeyBlocks + 1>> \o [i \in 1..(KeyBlocks - 2) |-> i + 2]
    /\ currentBlock = KeyBlocks + 1
    /\ selected = {}
    /\ firstSelectedBlock = NoBlock

\* C21: an arrow keydown not deferred to a flipper, with Shift held, hands
\* off to toggleBlockSelectedState (next for ArrowDown, previous for ArrowUp)
\* exactly when the key is ArrowDown and the caret is at the end of the current
\* input or a block is selected, or the key is ArrowUp and the caret is at the
\* start of the current input or a block is selected; the hand-off leaves the
\* caret where it is and does not reset the selection; ArrowRight and
\* ArrowLeft never hand off.
C21_ShiftArrowHandsOff ==
    [][/\ lastOp'.op = "toggleBlockSelectedState"
          => /\ lastOp'.key = (IF lastOp'.next THEN "DOWN" ELSE "UP")
             /\ UNCHANGED <<caret, currentBlock, currentInput>>
             /\ lastSelectedBlock' # NoBlock
             /\ selected' # {}
       /\ (/\ lastOp'.op = "arrow" /\ ~lastOp'.deferred
           /\ lastOp'.shiftKey /\ lastOp'.key \in {"DOWN", "UP"})
          => /\ ~(currentBlock # NoBlock /\ currentInput # 0 /\ lastOp'.edge)
             /\ ~anyBlockSelected]_vars

C21_Witness ==
    /\ lastOp.op = "toggleBlockSelectedState"
    /\ lastOp.key = "UP" /\ lastOp.stepped
    /\ caret = [block |-> currentBlock, pos |-> "end"]
    /\ firstSelectedBlock # lastSelectedBlock
    /\ Cardinality(selected) >= 2

\* C22: beforeKeydownProcessing clears the block selection only for a
\* printable key pressed with none of Ctrl, Meta, Alt and Shift; on Tab, on
\* any key with Shift held, and on Enter while the toolbox, the block settings
\* or the inline toolbar is open it closes no toolbar and changes neither a
\* selected flag nor an anchor.
C22_HookClearsOnlyOnTyping ==
    [][lastOp'.op \in {"keydown", "enter"} =>
          /\ (selected' # selected \/ firstSelectedBlock' # firstSelectedBlock
                                   \/ lastSelectedBlock' # lastSelectedBlock)
             => (lastOp'.printable /\ ~lastOp'.modifier /\ ~lastOp'.shiftKey)
          /\ (\/ lastOp'.key = "TAB"
              \/ lastOp'.shiftKey
              \/ lastOp'.key = "ENTER" /\ lastOp'.panel)
             => /\ ~lastOp'.toolbarClosed
                /\ UNCHANGED <<selected, firstSelectedBlock, lastSelectedBlock>>]_vars

C22_Witness ==
    /\ lastOp.op = "keydown" /\ lastOp.key = "CHAR"
    /\ lastOp.printable /\ ~lastOp.modifier /\ ~lastOp.shiftKey
    /\ selected = {}
    /\ firstSelectedBlock = NoBlock
    /\ caret.pos = "end"
    /\ caret.block # NoBlock
    /\ currentBlock = caret.block
    /\ currentInput = numInputs(currentBlock)

\* C23: after every pointer move of a drag that resolves a block index, every
\* block whose index is on stackOfSelected is selected if rectCrossesBlocks is
\* true and is not selected if rectCrossesBlocks is false.
C23_OverlapFlagRulesStack ==
    (mousedown /\ lastOp.op = "mousemove" /\ lastOp.index # NoIndex)
    => \A k \in 1..Len(stackOfSelected) :
          (blockAt(blocks, stackOfSelected[k]) \in selected) <=> rectCrossesBlocks

\* the indices from p (excluded) to q (included), in order of travel
Travel(p, q) ==
    [k \in 1..(IF q > p THEN q - p ELSE p - q) |-> IF q > p THEN p + k ELSE p - k]

\* A pointer move of a drag jumps from the top of the stack to an index more
\* than one away, in the established direction or with none established
JumpAhead ==
    LET p == Last(stackOfSelected)
        q == lastOp'.index
        n == Len(stackOfSelected)
    IN  /\ mousedown
        /\ lastOp'.op = "mousemove"
        /\ q # NoIndex
        /\ n >= 1
        /\ q - p > 1 \/ p - q > 1
        /\ n >= 2 => (q > p <=> p > stackOfSelected[n - 1])

\* C24: such a move pushes every index strictly between the old top and the
\* new index, and the new index, in order of travel, skipping none, and each
\* of them is selected when the rectangle overlaps the content column.
C24_JumpFillsTheGap ==
    [][JumpAhead =>
          /\ stackOfSelected' = stackOfSelected \o Travel(Last(stackOfSelected), lastOp'.index)
          /\ rectCrossesBlocks' =>
                \A i \in 1..Len(stackOfSelected') :
                    i > Len(stackOfSelected) =>
                        blockAt(blocks, stackOfSelected'[i]) \in selected']_vars

C24_Witness ==
    /\ mousedown /\ lastOp.op = "mousemove"
    /\ lastOp.jump /\ ~lastOp.reversal
    /\ lastOp.index = 2
    /\ rectCrossesBlocks
    /\ stackOfSelected = <<5, 4, 3, 2>>
    /\ SelectedIndices = 2..5

\* C25: the first pointer move of a drag, whatever the geometry of the
\* rectangle, selects no block: rectCrossesBlocks is false after it,
\* isRectSelectionActivated is true, the overlay is shown, and a block
\* under the pointer is on top of the stack but not selected.
C25_FirstMoveSelectsNothing ==
    [][(mousedown /\ ~isRectSelectionActivated /\ lastOp'.op = "mousemove") =>
          /\ ~rectCrossesBlocks'
          /\ isRectSelectionActivated'
          /\ overlayRectangle'.display = "block"
          /\ selected' \subseteq selected
          /\ lastOp'.index # NoIndex =>
                /\ stackOfSelected' # <<>>
                /\ Last(stackOfSelected') = lastOp'.index
                /\ blockAt(blocks, lastOp'.index) \notin selected']_vars

C25_Witness ==
    /\ mousedown /\ lastOp.op = "mousemove"
    /\ startX >= leftPos /\ startX <= rightPos
    /\ mouseX >= leftPos /\ mouseX <= rightPos
    /\ isRectSelectionActivated
    /\ ~rectCrossesBlocks
    /\ overlayRectangle.display = "block"
    /\ Len(stackOfSelected) = 1
    /\ selected = {}

\* C26: a mousedown whose start element lies inside the toolbar, the inline
\* toolbar or a block's content starts no drag: it leaves the mousedown state
\* as it is, and while that state is false no pointer move or scroll changes
\* the overlay, the stack or a selected flag; a start inside the toolbar also
\* leaves stackOfSelected and isRectSelectionActivated unchanged.
C26_AvoidedStartsActivateNothing ==
    [][/\ (/\ lastOp'.op = "rectMousedown"
           /\ lastOp'.elem \in {"toolbar", "inlineToolbar", "content"})
          => /\ mousedown' = mousedown
             /\ lastOp'.elem = "toolbar"
                => UNCHANGED <<stackOfSelected, isRectSelectionActivated>>
       /\ (~mousedown /\ lastOp'.op \in {"mousemove", "scroll"})
          => UNCHANGED <<overlayRectangle, stackOfSelected, selected>>]_vars

C26_Witness ==
    /\ lastOp.op = "rectMousedown"
    /\ lastOp.elem = "toolbar" /\ lastOp.plain /\ lastOp.button = MAIN_MOUSE_BUTTON
    /\ ~mousedown
    /\ Len(stackOfSelected) >= 2
    /\ selected # {}

\* C27: after a mousedown on the container that is not inside the toolbar,
\* whatever the mouse button and the element it started on, stackOfSelected
\* is empty and isRectSelectionActivated is false.
C27_MouseDownResetsRectangle ==
    (lastOp.op = "rectMousedown" /\ lastOp.plain /\ lastOp.elem # "toolbar")
    => (stackOfSelected = <<>> /\ ~isRectSelectionActivated)

\* C28: during a drag, a pointer move or scroll event whose hit-test
\* resolves no block leaves stackOfSelected and every block's selected flag
\* unchanged.
C28_NoBlockUnderPointerKeepsSelection ==
    [][(/\ mousedown
        /\ lastOp'.op \in {"mousemove", "scroll"}
        /\ lastOp'.index = NoIndex)
       => UNCHANGED <<stackOfSelected, selected>>]_vars

C28_Witness ==
    /\ mousedown
    /\ lastOp.op \in {"mousemove", "scroll"}
    /\ lastOp.index = NoIndex
    /\ ~rectCrossesBlocks
    /\ Len(stackOfSelected) >= 2
    /\ \A k \in 1..Len(stackOfSelected) : blockAt(blocks, stackOfSelected[k]) \in selected

\* C29: after a mouseover of an armed cross-block drag whose target block is
\* the anchor and whose related block is a different resolved block, no block
\* is selected, whatever selections came before.
C29_BackOnAnchorSelectsNothing ==
    (/\ lastOp.op = "mouseover"
     /\ lastOp.target # NoBlock
     /\ lastOp.target = firstSelectedBlock
     /\ lastOp.related \notin {NoBlock, lastOp.target})
    => selected = {}

\* the indices from the anchor block to lastSelectedBlock, both included
AnchorRange ==
    LET a == indexOf(blocks, firstSelectedBlock)
        l == indexOf(blocks, lastSelectedBlock)
    IN  Min(a, l)..Max(a, l)

\* C30: starting with no block selected and no anchor, after every keyboard
\* extension (toggleBlockSelectedState towards the next or the previous block,
\* in any order, also at the document edges) the selected blocks are exactly
\* the blocks with an index between the anchor block's and
\* lastSelectedBlock's, both included, and the anchor block is selected.
\* Stated for extensions that found a focused block to anchor on, in a
\* document no block of which has been removed.
C30_SelectionIsAnchorRange ==
    (/\ lastOp.op = "toggleBlockSelectedState"
     /\ firstSelectedBlock # NoBlock
     /\ Len(blocks) = KeyBlocks)
    => /\ SelectedIndices = AnchorRange
       /\ firstSelectedBlock \in selected

\* The extension went down past the anchor, came back up through it and
\* stopped at the first block of the document.
C30_Witness ==
    /\ lastOp.op = "toggleBlockSelectedState"
    /\ ~lastOp.next /\ ~lastOp.stepped
    /\ Len(blocks) = KeyBlocks
    /\ indexOf(blocks, lastSelectedBlock) = 0
    /\ indexOf(blocks, firstSelectedBlock) = 2
    /\ SelectedIndices = 0..2

\* C31: a mouseover of an armed cross-block drag whose target resolves to no
\* block, or whose target block is the related block (lastSelectedBlock when
\* the related target resolves to none), changes no selected flag, neither
\* anchor and not endSelectedBlockIndex.
C31_UnresolvedOrSameBlockIsNoOp ==
    [][(/\ lastOp'.op = "mouseover"
        /\ \/ lastOp'.target = NoBlock
           \/ lastOp'.target = (IF lastOp'.related # NoBlock THEN lastOp'.related
                                ELSE lastSelectedBlock))
       => UNCHANGED <<selected, firstSelectedBlock, lastSelectedBlock,
                      endSelectedBlockIndex>>]_vars

\* The pointer left the editing surface and came back onto the block it had
\* reached last, with three blocks selected.
C31_Witness ==
    /\ lastOp.op = "mouseover"
    /\ lastOp.related = NoBlock
    /\ lastOp.target # NoBlock
    /\ lastOp.target = lastSelectedBlock
    /\ lastOp.target # firstSelectedBlock
    /\ ~fault
    /\ Cardinality(selected) >= 3

\* A Delete keydown in a focused block
DeleteKey == lastOp'.op = "delete" /\ currentBlock # NoBlock

\* A Delete keydown with a collapsed caret at the end of the focused block's
\* last input, a block following it
DeleteAtBlockEnd ==
    /\ DeleteKey
    /\ lastOp'.collapsed /\ lastOp'.atEnd
    /\ currentInput = numInputs(currentBlock)
    /\ nextBlock # NoBlock

\* the step takes block b, and no other, out of the list
OnlyRemoved(b) ==
    /\ blocks' = SelectSeq(blocks, LAMBDA x : x # b)
    /\ \A x \in BlockIds \ {b} : textIn(content', x) = contentOf(x)

\* C32: the ladder of Delete. A selection that is not collapsed, or a caret
\* not at the end of the current input: nothing changes, the default stays.
\* Otherwise, in this order: not in the block's last input: the focus moves
\* to the next input and no block changes; no next block: the list is
\* unchanged; the next block is empty: only it is removed; the current block
\* is empty: only it is removed and the caret goes to the start of the next
\* block; the two are mergeable: the next block is merged into the current
\* one, started by the keydown and completed before any other event; else the
\* caret goes to the start of the next block and no block changes.
C32_DeleteLadder ==
    [][/\ (DeleteKey /\ (~lastOp'.collapsed \/ ~lastOp'.atEnd))
          => (UNCHANGED regVars /\ ~lastOp'.prevented)
       /\ (DeleteKey /\ lastOp'.collapsed /\ lastOp'.atEnd
                     /\ currentInput # numInputs(currentBlock))
          => /\ currentInput' = currentInput + 1
             /\ caret' = [block |-> currentBlock, pos |-> "start"]
             /\ UNCHANGED <<blocks, content, currentBlock>>
       /\ (DeleteKey /\ lastOp'.collapsed /\ lastOp'.atEnd
                     /\ currentInput = numInputs(currentBlock) /\ nextBlock = NoBlock)
          => UNCHANGED <<blocks, content>>
       /\ (DeleteAtBlockEnd /\ isEmpty(nextBlock))
          => (OnlyRemoved(nextBlock) /\ UNCHANGED <<currentBlock, caret>>)
       /\ (DeleteAtBlockEnd /\ ~isEmpty(nextBlock) /\ isEmpty(currentBlock))
          => /\ OnlyRemoved(currentBlock)
             /\ currentBlock' = nextBlock
             /\ caret' = [block |-> nextBlock, pos |-> "start"]
       /\ (DeleteAtBlockEnd /\ ~isEmpty(nextBlock) /\ ~isEmpty(currentBlock)
                            /\ areBlocksMergeable(currentBlock, nextBlock))
          => MergeOfNextStarted
       /\ MergeCompleted
       /\ (DeleteAtBlockEnd /\ ~isEmpty(nextBlock) /\ ~isEmpty(currentBlock)
                            /\ ~areBlocksMergeable(currentBlock, nextBlock))
          => /\ currentBlock' = nextBlock
             /\ caret' = [block |-> nextBlock, pos |-> "start"]
             /\ UNCHANGED <<blocks, content>>]_vars

\* Delete at the end of a block has removed the empty block after it, and
\* nothing else.
C32_Witness ==
    /\ lastOp.op = "delete"
    /\ lastOp.collapsed /\ lastOp.atEnd /\ lastOp.prevented /\ lastOp.removed
    /\ blocks = <<1, 3>>
    /\ currentBlock = 1
    /\ contentOf(1) = <<1>> /\ contentOf(3) = <<3>>
    /\ caret.block = NoBlock

\* An arrow keydown that is neither left to a flipper nor handed to the
\* keyboard extension
PlainArrow == lastOp'.op = "arrow" /\ ~lastOp'.deferred

\* The key asks for the next input or block: ArrowDown, ArrowRight in a
\* left-to-right editor, ArrowLeft in a right-to-left one
MovesForward ==
    \/ lastOp'.key = "DOWN"
    \/ lastOp'.key = "RIGHT" /\ ~isRtl
    \/ lastOp'.key = "LEFT" /\ isRtl

\* Caret navigation towards the key's side succeeds (navEdge: the caret is at
\* the edge of its input on that side)
ArrowNavigates ==
    IF MovesForward THEN canNavigateNext(lastOp'.navEdge)
    ELSE canNavigatePrevious(lastOp'.navEdge)

\* C33: an arrow keydown that is neither deferred to a flipper nor handed to
\* cross-block selection prevents the event's default when the caret
\* navigation to the adjacent input or block succeeds; when it fails the
\* block selection is cleared and the default is not prevented.
C33_ArrowNavigatesOrClears ==
    [][PlainArrow =>
          IF ArrowNavigates
          THEN lastOp'.prevented /\ UNCHANGED selected
          ELSE selected' = {} /\ ~lastOp'.prevented]_vars

\* Shift+ArrowRight while the keyboard extension is under way and the caret
\* cannot move on: the selection is gone.
C33_Witness ==
    /\ lastOp.op = "arrow"
    /\ lastOp.key = "RIGHT" /\ lastOp.shiftKey
    /\ ~lastOp.deferred /\ lastOp.cleared /\ ~lastOp.prevented
    /\ lastOp.started
    /\ selected = {}
    /\ currentBlock # NoBlock

\* the indices on the stack
Stacked == {stackOfSelected[k] : k \in 1..Len(stackOfSelected)}

\* C34: during a rectangle drag every selected block has its index on
\* stackOfSelected: no pointer move leaves a block selected that is no longer
\* on the stack.
C34_SelectedBlocksAreStacked ==
    mousedown => SelectedIndices \subseteq Stacked

\* C35: after every pointer move of a drag that resolves a block index, that
\* index is the top of stackOfSelected, also when the move reverses past the
\* first stacked block.
C35_TopOfStackIsUnderPointer ==
    (mousedown /\ lastOp.op = "mousemove" /\ lastOp.index # NoIndex)
    => (stackOfSelected # <<>> /\ Last(stackOfSelected) = lastOp.index)

\* C36: isCrossBlockSelectionStarted is false right after the mousedown that
\* arms the drag, and true whenever a mouseover of the armed drag has left
\* two or more blocks selected, the first extension from the anchor included.
C36_StartedIffExtended ==
    /\ (lastOp.op = "mousedown" /\ lastOp.button = 0 /\ lastOp.inRedactor)
       => ~isCrossBlockSelectionStarted
    /\ (lastOp.op = "mouseover" /\ Cardinality(selected) >= 2)
       => isCrossBlockSelectionStarted

\* the blocks the step takes out of the list
RemovedBlocks == BlockIds \ {blocks'[k] : k \in 1..Len(blocks')}

\* C37: the blocks a Cut removes are exactly the blocks that Cut copied to
\* the clipboard, and it inserts its default block only where it removed
\* blocks, whatever events (selection changes by pointer or keyboard, a
\* second Cut) come between the start of the copy and its completion.
C37_CutRemovesWhatItCopied ==
    [][lastOp'.op = "cutFulfilled" =>
          /\ RemovedBlocks = {lastOp'.cut.payload[k] : k \in 1..Len(lastOp'.cut.payload)}
          /\ blocks' # blocks =>
                /\ RemovedBlocks # {}
                /\ blocks'[firstIndexIn(blocks, RemovedBlocks) + 1] \notin BlockIds]_vars

\* ------------------------------------------- pointer drag, then keyboard
\* The cross-block drag and the Shift+arrow keys on one document of
\* MixedBlocks blocks, none of them focused.
InitMixed ==
    /\ InitRegistry(MixedBlocks)
    /\ currentBlock = NoBlock
    /\ isRtl = FALSE
    /\ InitCBS /\ InitRect /\ InitCut /\ InitKeys /\ InitObs

\* A main-button mousedown on a block
MixedMouseDown ==
    \E target \in BlockIds :
        /\ enableCrossBlockSelection(0, TRUE, target)
        /\ pointerAt' = target
        /\ UNCHANGED <<rectVars, cutVars, keyVars>>

\* Shift+ArrowDown or Shift+ArrowUp, no toolbar open
MixedShiftArrow ==
    \E next \in BOOLEAN :
        /\ IF next THEN arrowRightAndDown("DOWN", TRUE, FALSE, FALSE, FALSE)
           ELSE arrowLeftAndUp("UP", TRUE, FALSE, FALSE, FALSE)
        /\ inputTimers' <= MaxDelays
        /\ UNCHANGED keyFrame

NextMixed ==
    \/ MixedMouseDown \/ CrossMouseOver \/ CrossMouseUp \/ CrossMouseOverUnbound
    \/ MixedShiftArrow \/ KeyDelayFires

SpecMixed == InitMixed /\ [][NextMixed]_vars

\* S is a run of consecutive indices
IsIndexRange(S) == \A i \in S, j \in S : \A k \in i..j : k \in S

\* The last event belonged to a pointer drag that left the anchor and at
\* least one other block selected, as one run of indices.
DragExtended ==
    /\ lastOp.op \in {"mouseover", "mouseup", "mouseoverUnbound"}
    /\ firstSelectedBlock \in selected
    /\ Cardinality(selected) >= 2
    /\ IsIndexRange(SelectedIndices)

\* C38: a Shift+ArrowDown or Shift+ArrowUp keyboard extension that follows a
\* pointer drag which extended the selection from the anchor to another block
\* leaves the anchor block selected and the selected blocks one run of
\* indices that contains the anchor.
C38_KeyboardAfterDragKeepsRange ==
    [][(DragExtended /\ lastOp'.op = "toggleBlockSelectedState")
       => /\ firstSelectedBlock' \in selected'
          /\ firstSelectedBlock' = firstSelectedBlock
          /\ IsIndexRange(SelectedIndices')]_vars

\* C39: when the mousedown that armed the watch landed inside the editing
\* surface on no block (the anchor and its index are unresolved), a mouseover
\* between blocks leaves every selected flag unchanged and raises no fault.
C39_UnresolvedAnchorIsHarmless ==
    [][(/\ listening
        /\ firstSelectedBlock = NoBlock
        /\ firstSelectedBlockIndex = NotFound
        /\ lastOp'.op = "mouseover")
       => (selected' = selected /\ fault' = fault)]_vars

\* C40: in every reachable state of the rectangle engine the selection is
\* activated only while a drag is active (mousedown is true), and the overlay
\* is shown only while a drag is active.
C40_ActivatedOnlyWhileDragging ==
    /\ isRectSelectionActivated => mousedown
    /\ overlayRectangle.display = "block" => mousedown

\* A mousedown on the toolbar during an activated drag has left it activated.
C40_Witness ==
    /\ isRectSelectionActivated
    /\ overlayRectangle.display = "block"
    /\ mousedown
    /\ lastOp.op = "rectMousedown"
    /\ lastOp.elem = "toolbar" /\ lastOp.plain /\ lastOp.button = MAIN_MOUSE_BUTTON
    /\ selected # {}

====
